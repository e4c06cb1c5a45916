-------------------------------- MODULE Portal --------------------------------
(***************************************************************************)
(* A browser and the dashboard: the requests of its pages pass             *)
(* authMiddleware (Sessions) before their handler (Pages, Neighbors), and  *)
(* their answers arrive in any order.  A request is sent with the cookies  *)
(* of that moment, handled later and received later still; htmx does not   *)
(* order the requests of different elements.                               *)
(* Deployments without a base URL only: with one, the login cookie is      *)
(* "cronn-auth" over https too.  Basic auth keeps no state and is left     *)
(* out, and so are wrong passwords: the login form is shown again.         *)
(***************************************************************************)
EXTENDS Sessions, Sequences, FiniteSets

CONSTANTS
    PageIds, Settings, Modes, Default, NoMode,
    CacheTTL, FetchTimeout, NoList,
    SecurePages,   \* the pages opened over https
    CookieAge,     \* the day the login cookie is kept
    Slots,         \* requests in flight (bound)
    Menus,         \* what the users of a behaviour do: requests, number of logins (bound)
    Never          \* no time, no token

Kinds == {"load", "poll", "choose", "neighbors", "login", "logout"}
Navigations == {"load", "login", "logout"}
CookieNames == {"__Host-cronn-auth", "cronn-auth"}

ASSUME PortalAssumption ==
    /\ PageIds # {} /\ SecurePages \subseteq PageIds /\ Settings # {}
    /\ Default \in [Settings -> UNION {Modes[k] : k \in Settings}]
    /\ \A k \in Settings : Default[k] \in Modes[k] /\ NoMode \notin Modes[k]
    /\ {CacheTTL, FetchTimeout, CookieAge} \subseteq Nat /\ CacheTTL > 0 /\ NoList \notin Nat
    /\ Never \notin Tokens /\ Menus \subseteq [kinds : SUBSET Kinds, logins : Nat]

VARIABLES
    modeCookies, pages,   \* see Pages
    cache,                \* see Neighbors
    authCookies,          \* the login cookies of the browser
    wire,                 \* the requests and answers in flight
    entered,              \* history: the login in force, over https and over http
    menu                  \* what the users of this behaviour do

INSTANCE Pages
INSTANCE Neighbors

browserVars == <<modeCookies, pages, authCookies, entered>>
vars == <<now, sessionVars, cache, browserVars, wire, menu>>

NoCookie == [token |-> Never, until |-> 0]
NoLogins == [secure \in BOOLEAN |-> NoCookie]

\* stage: "free", "sent", "admitted" (by authMiddleware), "fetching" (neighbours),
\* "served" or "refused";
\* query is the form of the request, then the query its answer was rendered
\* with; due is a history variable: the login the request relies on.
NoRequest == [stage |-> "free", page |-> CHOOSE p \in PageIds : TRUE, kind |-> "load",
              setting |-> CHOOSE k \in Settings : TRUE, query |-> NoForm, cookies |-> NoForm,
              tokens |-> <<>>, due |-> Never, begun |-> 0, list |-> NoList, token |-> Never]

Init ==
    /\ InitSessions /\ InitNeighbors /\ InitPages
    /\ authCookies = [c \in CookieNames |-> NoCookie]
    /\ wire = [s \in Slots |-> NoRequest]
    /\ entered = NoLogins
    /\ menu \in Menus

-----------------------------------------------------------------------------
(* The browser sends.                                                        *)

Secure(p) == p \in SecurePages
CookieName(p) == IF Secure(p) THEN "__Host-cronn-auth" ELSE "cronn-auth"

\* The cookies that are sent, in the order authMiddleware looks at them.
Sent(c) == IF authCookies[c] # NoCookie THEN <<authCookies[c].token>> ELSE <<>>
TokensSent(p) == (IF Secure(p) THEN Sent("__Host-cronn-auth") ELSE <<>>) \o Sent("cronn-auth")

Idle(s) == wire[s].stage = "free" /\ \A r \in 1 .. (s - 1) : wire[r].stage # "free"

Request(p, kind, k, form) ==
    [NoRequest EXCEPT !.stage = "sent", !.page = p, !.kind = kind, !.setting = k,
                      !.query = form, !.cookies = modeCookies,
                      !.tokens = TokensSent(p), !.due = entered[Secure(p)].token]

Send(s, p, kind, k, form) ==
    /\ kind \in menu.kinds /\ Idle(s)
    /\ wire' = [wire EXCEPT ![s] = Request(p, kind, k, form)]

\* A navigation abandons the one the page waits for.
Navigate(s, p, kind) ==
    /\ kind \in menu.kinds /\ Idle(s)
    /\ wire' = [r \in Slots |->
                  CASE r = s -> Request(p, kind, NoRequest.setting, NoForm)
                    [] r # s /\ wire[r].page = p /\ wire[r].kind \in Navigations -> NoRequest
                    [] OTHER -> wire[r]]

Load(s, p) ==
    Navigate(s, p, "load") /\ UNCHANGED <<now, sessionVars, cache, browserVars, menu>>

Login(s, p) ==
    /\ pages[p].at = "login"
    /\ Navigate(s, p, "login") /\ UNCHANGED <<now, sessionVars, cache, browserVars, menu>>

Logout(s, p) ==
    /\ pages[p].at = "dashboard"
    /\ Navigate(s, p, "logout") /\ UNCHANGED <<now, sessionVars, cache, browserVars, menu>>

\* One poll of a page at a time: htmx sends none while one is under way.
Poll(s, p) ==
    /\ pages[p].at = "dashboard"
    /\ \A r \in Slots : wire[r].stage # "free" => <<wire[r].page, wire[r].kind>> # <<p, "poll">>
    /\ Send(s, p, "poll", NoRequest.setting, pages[p].controls)
    /\ UNCHANGED <<now, sessionVars, cache, browserVars, menu>>

ChooseMode(s, p, k, mode) ==
    /\ pages[p].at = "dashboard" /\ pages[p].controls[k] # mode
    /\ Send(s, p, "choose", k, Choice(p, k, mode))
    /\ Choose(p, k, mode)
    /\ UNCHANGED <<now, sessionVars, cache, authCookies, entered, menu>>

AskNeighbors(s, p) ==
    /\ pages[p].at = "dashboard"
    /\ Send(s, p, "neighbors", NoRequest.setting, NoForm)
    /\ UNCHANGED <<now, sessionVars, cache, browserVars, menu>>

-----------------------------------------------------------------------------
(* The server handles.                                                       *)

\* The answer, without what only the request needed.
Answer(s, m) ==
    wire' = [wire EXCEPT ![s] = [m EXCEPT !.tokens = <<>>, !.cookies = NoForm, !.due = Never]]

\* handleLogin: the password is right.
HandleLogin(s, t) ==
    /\ wire[s].stage = "sent" /\ wire[s].kind = "login"
    /\ Cardinality(DOMAIN issued) < menu.logins /\ CreateSession(t)
    /\ Answer(s, [wire[s] EXCEPT !.stage = "served", !.token = t])
    /\ UNCHANGED <<now, cache, browserVars, menu>>

\* authMiddleware: it finds a valid session and calls the handler, by which
\* time the session may have ended.
Admit(s) ==
    /\ wire[s].stage = "sent" /\ wire[s].kind # "login" /\ Allowed(wire[s].tokens)
    /\ ValidateSessions(wire[s].tokens)
    /\ wire' = [wire EXCEPT ![s] = [@ EXCEPT !.stage = "admitted", !.due = Never]]
    /\ UNCHANGED <<now, cache, browserVars, menu>>

\* authMiddleware: a page's own request is answered with HX-Redirect, a
\* navigation with a redirect; both bring up the login form.
Refuse(s) ==
    /\ wire[s].stage = "sent" /\ wire[s].kind # "login" /\ ~Allowed(wire[s].tokens)
    /\ ValidateSessions(wire[s].tokens)
    /\ Answer(s, [wire[s] EXCEPT !.stage = "refused"])
    /\ UNCHANGED <<now, cache, browserVars, menu>>

Admitted(s, kinds) == wire[s].stage = "admitted" /\ wire[s].kind \in kinds

\* handleDashboard, handleJobsPartial, handleFilterModeChange, handleSortModeChange
HandleJobs(s) ==
    LET m == wire[s]
    IN  /\ Admitted(s, {"load", "poll", "choose"})
        /\ Answer(s, [m EXCEPT !.stage = "served", !.query = Query(m.query, m.cookies)])
        /\ UNCHANGED <<now, sessionVars, cache, browserVars, menu>>

HandleLogout(s) ==
    /\ Admitted(s, {"logout"})
    /\ LogoutSession(wire[s].tokens)
    /\ entered' = NoLogins
    /\ Answer(s, [wire[s] EXCEPT !.stage = "served"])
    /\ UNCHANGED <<now, cache, modeCookies, pages, authCookies, menu>>

\* handleNeighbors: from the cache, or by a fetch without the lock.
HandleNeighbors(s) ==
    /\ Admitted(s, {"neighbors"})
    /\ Answer(s, IF Hit THEN [wire[s] EXCEPT !.stage = "served", !.list = cache.list, !.begun = now]
                 ELSE [wire[s] EXCEPT !.stage = "fetching", !.begun = now, !.token = Never])
    /\ UNCHANGED <<now, sessionVars, cache, browserVars, menu>>

\* The source is read at some time during the fetch.
ReadSource(s) ==
    /\ wire[s].stage = "fetching" /\ wire[s].list = NoList
    /\ Answer(s, [wire[s] EXCEPT !.list = now])
    /\ UNCHANGED <<now, sessionVars, cache, browserVars, menu>>

\* A JSON null is no list and is stored all the same.
EndFetch(s) ==
    /\ wire[s].stage = "fetching"
    /\ Store(wire[s].list)
    /\ Answer(s, [wire[s] EXCEPT !.stage = "served", !.begun = now])
    /\ UNCHANGED <<now, sessionVars, browserVars, menu>>

FetchFails(s) ==
    /\ wire[s].stage = "fetching"
    /\ Answer(s, [wire[s] EXCEPT !.stage = "served", !.list = NoList, !.begun = now])
    /\ UNCHANGED <<now, sessionVars, cache, browserVars, menu>>

-----------------------------------------------------------------------------
(* The browser receives.                                                     *)

\* The answer is consumed.  When it brings up another page, what the old one
\* asked for is abandoned.
Done(s) == wire' = [wire EXCEPT ![s] = NoRequest]
DoneAll(p) == wire' = [r \in Slots |-> IF wire[r].page = p THEN NoRequest ELSE wire[r]]

ReceiveRefusal(s) ==
    /\ wire[s].stage = "refused"
    /\ ShowLogin(wire[s].page) /\ DoneAll(wire[s].page)
    /\ UNCHANGED <<now, sessionVars, cache, authCookies, entered, menu>>

ReceiveJobs(s) ==
    LET m == wire[s]
    IN  /\ m.stage = "served"
        /\ \/ m.kind = "load" /\ ShowDashboard(m.page, m.query) /\ DoneAll(m.page)
           \/ m.kind = "poll" /\ ShowTable(m.page, m.query) /\ Done(s)
           \/ m.kind = "choose" /\ ShowChoice(m.page, m.setting, m.query) /\ Done(s)
        /\ UNCHANGED <<now, sessionVars, cache, authCookies, entered, menu>>

Cookie(t) == [token |-> t, until |-> now + CookieAge]

\* The cookie is set and the browser follows the redirect to the dashboard.
\* The cookie of a login over http is sent over https as well.
ReceiveLogin(s) ==
    LET p == wire[s].page
    IN  /\ wire[s].stage = "served" /\ wire[s].kind = "login"
        /\ authCookies' = [authCookies EXCEPT
             ![CookieName(p)] = Cookie(wire[s].token)]
        /\ entered' = [secure \in BOOLEAN |->
             IF Secure(p) => secure THEN Cookie(wire[s].token)
             ELSE entered[secure]]
        /\ pages' = [pages EXCEPT ![p] = Blank]
        /\ DoneAll(p)
        /\ UNCHANGED <<now, sessionVars, cache, modeCookies, menu>>

\* Both cookies are cleared, the one with the prefix over https only.
ReceiveLogout(s) ==
    LET p == wire[s].page
    IN  /\ wire[s].stage = "served" /\ wire[s].kind = "logout"
        /\ authCookies' = [c \in CookieNames |->
             IF c = "cronn-auth" \/ Secure(p) THEN NoCookie ELSE authCookies[c]]
        /\ entered' = NoLogins
        /\ ShowLogin(p) /\ DoneAll(p)
        /\ UNCHANGED <<now, sessionVars, cache, menu>>

ReceiveNeighbors(s) ==
    /\ wire[s].stage = "served" /\ wire[s].kind = "neighbors"
    /\ Done(s)
    /\ UNCHANGED <<now, sessionVars, cache, browserVars, menu>>

-----------------------------------------------------------------------------
\* Time passes: the browser forgets old cookies, a fetch ends with its timeout.
Tick ==
    /\ now < MaxTime
    /\ \A s \in Slots : wire[s].stage = "fetching" => now < wire[s].begun + FetchTimeout
    /\ now' = now + 1
    /\ authCookies' = [c \in CookieNames |->
         IF now' < authCookies[c].until THEN authCookies[c] ELSE NoCookie]
    /\ entered' = [secure \in BOOLEAN |->
         IF now' < entered[secure].until THEN entered[secure] ELSE NoCookie]
    /\ UNCHANGED <<sessionVars, cache, modeCookies, pages, wire, menu>>

Browse(s, p) ==
    \/ Load(s, p) \/ Login(s, p) \/ Logout(s, p) \/ Poll(s, p) \/ AskNeighbors(s, p)
    \/ \E k \in Settings : \E mode \in Modes[k] : ChooseMode(s, p, k, mode)

Respond(s) ==
    \/ \E t \in Tokens : HandleLogin(s, t)
    \/ Refuse(s) \/ HandleJobs(s) \/ HandleLogout(s)
    \/ HandleNeighbors(s) \/ ReadSource(s) \/ EndFetch(s) \/ FetchFails(s)

Handle(s) == Admit(s) \/ Respond(s)

Receive(s) ==
    ReceiveRefusal(s) \/ ReceiveJobs(s) \/ ReceiveLogin(s) \/ ReceiveLogout(s) \/ ReceiveNeighbors(s)

Next ==
    \/ Tick
    \/ \E s \in Slots : Handle(s) \/ Receive(s) \/ \E p \in PageIds : Browse(s, p)

Spec == Init /\ [][Next]_vars

-----------------------------------------------------------------------------
(* What the dashboard promises its users.                                    *)

\* Every variable has its type; a token in the map was drawn and has its time.
TypeOK ==
    /\ TypeOKSessions /\ TypeOKPages /\ TypeOKNeighbors
    /\ \A t \in DOMAIN sessions : sessions[t] = issued[t]
    /\ \A c \in CookieNames : authCookies[c].token \in DOMAIN issued \cup {Never}
    /\ \A s \in Slots : wire[s].stage \in {"free", "sent", "admitted", "fetching", "served", "refused"}

\* No handler is called for a browser unless one of the tokens it sent was
\* given to a user who knew the password, at most the configured time ago, and
\* has not been invalidated by a logout.  A logout invalidates the token of the
\* first cookie of its request: that of a second one may be served after it.
ServedIsJustified ==
    [][\A s \in Slots :
         wire[s].stage = "sent" /\ wire'[s].stage = "admitted"
            => \E i \in DOMAIN wire[s].tokens : Justified(wire[s].tokens[i])]_vars

\* A user who logged in stays logged in until a logout or the end of the last
\* session, though an older one of the browser ends before, logins clean up
\* the map and answers are late.
StaysLoggedIn ==
    [][\A s \in Slots :
         wire[s].stage = "sent" /\ wire'[s].stage = "refused" /\ wire[s].due # Never
            => \/ now - issued[wire[s].due] > LoginTTL
               \/ entered[Secure(wire[s].page)].token # wire[s].due]_vars

\* web.go: a change made in another tab "does not leak into this one".  The
\* controls and the table of a page show the modes it was loaded with or the
\* ones its own user chose, though the answers arrive in any order.
NoLeak ==
    \A p \in PageIds : pages[p].at = "dashboard" =>
        \A k \in Settings : {pages[p].controls[k], pages[p].table[k]} \subseteq pages[p].own[k]

\* The neighbours on a page are never older than the cache and one fetch
\* allow, however many fetches ran at once and in whatever order they ended.
NeighborsFresh ==
    \A s \in Slots : wire[s].stage = "served" /\ wire[s].kind = "neighbors"
        => Recent(wire[s].list, wire[s].begun)
=============================================================================
