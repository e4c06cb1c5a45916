------------------------------- MODULE Sessions -------------------------------
(***************************************************************************)
(* The login sessions of the dashboard (app/web/auth.go): a map of tokens  *)
(* under sessionsMu.  Every operation holds the mutex from its first read  *)
(* to its last write and is one step here; so are the two looks of         *)
(* authMiddleware at the tokens sent, since a token that is not valid at   *)
(* the first look will not be at the second.                               *)
(* A definition introduced by "Slip" is a plausible mistake in the one     *)
(* after it, used by no behaviour.                                         *)
(***************************************************************************)
EXTENDS Integers, Functions

CONSTANTS
    Tokens,      \* session tokens: 32 random bytes, never drawn twice
    LoginTTL,    \* --web.login-ttl
    MaxTime      \* the last instant of a behaviour (bound)

ASSUME SessionsAssumption == LoginTTL \in Nat /\ MaxTime \in Nat

VARIABLES
    now,         \* the clock
    sessions,    \* Server.sessions: the creation time of each token
    issued,      \* history: when each token drawn so far was drawn
    revoked      \* history: the tokens that logouts invalidated

sessionVars == <<sessions, issued, revoked>>

Fresh(t) == t \notin DOMAIN issued

InitSessions == now = 0 /\ sessions = <<>> /\ issued = <<>> /\ revoked = {}

Expired(t) == now - sessions[t] > LoginTTL

\* A new session; the expired ones are removed with it.
CreateSession(t) ==
    /\ Fresh(t)
    /\ issued' = [u \in DOMAIN issued \cup {t} |-> IF u = t THEN now ELSE issued[u]]
    /\ sessions' = [u \in {v \in DOMAIN sessions : ~Expired(v)} \cup {t} |->
                      IF u = t THEN now ELSE sessions[u]]
    /\ UNCHANGED revoked

\* Slip: a session lasts until the clean-up of the next login.
ValidUntilCleanup(t) == t \in DOMAIN sessions

Valid(t) == t \in DOMAIN sessions /\ ~Expired(t)

\* Slip: only the first cookie is looked at.
AllowedByFirst(sent) == sent # <<>> /\ Valid(sent[1])

\* authMiddleware looks at the tokens sent until one is valid ...
Allowed(sent) == \E i \in DOMAIN sent : Valid(sent[i])

\* Slip: the session that is used begins anew.
ValidateRenewing(sent) ==
    /\ sessions' = [t \in {u \in DOMAIN sessions : ~Expired(u)} |->
                      IF \E i \in DOMAIN sent : sent[i] = t THEN now ELSE sessions[t]]
    /\ UNCHANGED <<issued, revoked>>

\* ... and removes the expired ones it meets on the way.
ValidateSessions(sent) ==
    LET met == {sent[i] : i \in {k \in DOMAIN sent : \A h \in 1 .. k : ~Valid(sent[h])}}
    IN  /\ sessions' = Restrict(sessions, DOMAIN sessions \ met)
        /\ UNCHANGED <<issued, revoked>>

\* handleLogout, in a step of its own after authMiddleware: of the tokens sent
\* it invalidates the first; that of a second cookie stays valid.
LogoutSession(sent) ==
    /\ sessions' = Restrict(sessions, DOMAIN sessions \ {sent[1]})
    /\ revoked' = revoked \cup {sent[1]}
    /\ UNCHANGED issued

\* A token that may open the dashboard.
Justified(t) == t \in DOMAIN issued /\ now - issued[t] <= LoginTTL /\ t \notin revoked

TypeOKSessions ==
    /\ now \in 0 .. MaxTime
    /\ DOMAIN issued \subseteq Tokens /\ \A t \in DOMAIN issued : issued[t] \in 0 .. now
    /\ DOMAIN sessions \subseteq DOMAIN issued /\ revoked \subseteq DOMAIN issued
=============================================================================
