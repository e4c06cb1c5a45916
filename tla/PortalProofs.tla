----------------------------- MODULE PortalProofs -----------------------------
(***************************************************************************)
(* Proofs about Portal: who is served and who is refused (Sessions), what  *)
(* a page shows (Pages), and how old the neighbours on it are (Neighbors). *)
(* For any number of pages, requests in flight, logins and settings.       *)
(***************************************************************************)
EXTENDS Portal, SequenceTheorems, TLAPS

-----------------------------------------------------------------------------
(* The shape of the state.                                                   *)

PageModes == UNION {Modes[k] : k \in Settings}
Stages == {"free", "sent", "admitted", "fetching", "served", "refused"}
Times == Nat \cup {NoList}
Cookies == [token : Tokens \cup {Never}, until : Nat]

\* Forms and cookies, and the forms in which every setting has a mode.
Forms == {f \in [Settings -> PageModes \cup {NoMode}] : \A k \in Settings : f[k] \in Modes[k] \cup {NoMode}}
Queries == {q \in [Settings -> PageModes] : \A k \in Settings : q[k] \in Modes[k]}

PageStates ==
    [at : {"blank", "login", "dashboard"}, controls : Queries, table : Queries,
     own : [Settings -> SUBSET PageModes]]

Requests ==
    [stage : Stages, page : PageIds, kind : Kinds, setting : Settings, query : Forms, cookies : Forms,
     tokens : Seq(Tokens), due : Tokens \cup {Never}, begun : Nat, list : Times,
     token : Tokens \cup {Never}]

\* An answer that shows jobs has a mode for every setting, and only the
\* neighbours are fetched.
Proper(m) ==
    /\ m.stage = "served" /\ m.kind \in {"load", "poll", "choose"} => m.query \in Queries
    /\ m.stage = "fetching" => m.kind = "neighbors"

Shape ==
    /\ now \in Nat
    /\ cache \in [list : Times, at : Nat]
    /\ authCookies \in [CookieNames -> Cookies] /\ entered \in [BOOLEAN -> Cookies]
    /\ modeCookies \in Forms
    /\ pages \in [PageIds -> PageStates]
    /\ \A p \in PageIds : \A k \in Settings : pages[p].own[k] \subseteq Modes[k]
    /\ wire \in [Slots -> Requests] /\ \A s \in Slots : Proper(wire[s])

\* The constants.
LEMMA Constants ==
    /\ CacheTTL \in Nat /\ CacheTTL > 0 /\ FetchTimeout \in Nat /\ CookieAge \in Nat
    /\ LoginTTL \in Nat /\ MaxTime \in Nat
    /\ NoList \notin Nat /\ Never \notin Tokens
    /\ Default \in Queries /\ NoMode \notin PageModes
    /\ NoForm \in Forms /\ NoCookie \in Cookies
    /\ NoRequest.page \in PageIds /\ NoRequest.setting \in Settings
<1>1. Default \in Queries
  BY PortalAssumption DEF Queries, PageModes
<1>2. NoForm \in Forms /\ NoCookie \in Cookies
  BY DEF NoForm, Forms, NoCookie, Cookies
<1>3. NoMode \notin PageModes
  BY PortalAssumption DEF PageModes
<1>4. (CHOOSE p \in PageIds : TRUE) \in PageIds /\ (CHOOSE k \in Settings : TRUE) \in Settings
  BY PortalAssumption
<1>5. NoRequest.page \in PageIds /\ NoRequest.setting \in Settings
  BY <1>4 DEF NoRequest
<1> QED BY <1>1, <1>2, <1>3, <1>5, PortalAssumption, SessionsAssumption

\* A slot without a request.
LEMMA NoRequestIs ==
    /\ NoRequest \in Requests /\ NoRequest.stage = "free"
    /\ NoRequest.tokens = <<>> /\ NoRequest.due = Never /\ NoRequest.list = NoList
    /\ NoRequest.kind = "load"
<1>1. <<>> \in Seq(Tokens)
  OBVIOUS
<1>2. NoForm \in Forms
  BY Constants
<1>3. (CHOOSE p \in PageIds : TRUE) \in PageIds /\ (CHOOSE k \in Settings : TRUE) \in Settings
  BY PortalAssumption
<1>4. NoRequest \in Requests
  BY <1>1, <1>2, <1>3 DEF NoRequest, Requests, Stages, Kinds, Times
<1> QED BY <1>4 DEF NoRequest

\* A query's modes are a form's.
LEMMA QueriesAreForms == Queries \subseteq Forms
BY DEF Queries, Forms

\* A request as it is sent.
LEMMA RequestIs ==
    ASSUME NEW p, NEW kind, NEW k, NEW form, NEW m, m = Request(p, kind, k, form)
    PROVE  /\ m.stage = "sent" /\ m.page = p /\ m.kind = kind /\ m.setting = k
           /\ m.query = form /\ m.cookies = modeCookies /\ m.tokens = TokensSent(p)
           /\ m.due = entered[Secure(p)].token /\ m.list = NoList
<1> DEFINE tokens == TokensSent(p)
           due == entered[Secure(p)].token
<1>1. m = [NoRequest EXCEPT !.stage = "sent", !.page = p, !.kind = kind, !.setting = k,
                            !.query = form, !.cookies = modeCookies, !.tokens = tokens, !.due = due]
  BY DEF Request
<1> HIDE DEF tokens, due
<1>2. m.stage = "sent" /\ m.page = p /\ m.kind = kind /\ m.setting = k
  BY <1>1 DEF NoRequest
<1>3. m.query = form /\ m.cookies = modeCookies /\ m.tokens = tokens /\ m.due = due
  BY <1>1 DEF NoRequest
<1>4. m.list = NoList
  BY <1>1 DEF NoRequest
<1> QED BY <1>2, <1>3, <1>4 DEF tokens, due

\* A request has its type.
LEMMA RequestTyped ==
    ASSUME NEW p \in PageIds, NEW kind \in Kinds, NEW k \in Settings, NEW form \in Forms,
           modeCookies \in Forms, TokensSent(p) \in Seq(Tokens),
           entered[Secure(p)].token \in Tokens \cup {Never}
    PROVE  Request(p, kind, k, form) \in Requests
<1> DEFINE tokens == TokensSent(p)
           due == entered[Secure(p)].token
<1>1. Request(p, kind, k, form) =
        [NoRequest EXCEPT !.stage = "sent", !.page = p, !.kind = kind, !.setting = k,
                          !.query = form, !.cookies = modeCookies, !.tokens = tokens, !.due = due]
  BY DEF Request
<1>2. NoRequest \in Requests /\ tokens \in Seq(Tokens) /\ due \in Tokens \cup {Never}
  BY NoRequestIs
<1> HIDE DEF tokens, due
<1>3. "sent" \in Stages
  BY DEF Stages
<1>4. [NoRequest EXCEPT !.stage = "sent", !.page = p, !.kind = kind, !.setting = k,
                        !.query = form, !.cookies = modeCookies, !.tokens = tokens, !.due = due]
      \in Requests
  BY <1>2, <1>3 DEF Requests
<1> QED BY <1>1, <1>4

\* The tokens that are sent are those of the cookies there are.
LEMMA TokensSentAre ==
    ASSUME Shape, \A c \in CookieNames : authCookies[c].token = Never => authCookies[c] = NoCookie,
           NEW p \in PageIds
    PROVE  /\ TokensSent(p) \in Seq(Tokens)
           /\ \A i \in DOMAIN TokensSent(p) : \E c \in CookieNames : TokensSent(p)[i] = authCookies[c].token
           /\ \A c \in CookieNames :
                authCookies[c] # NoCookie /\ (c = "cronn-auth" \/ Secure(p))
                => \E i \in DOMAIN TokensSent(p) : TokensSent(p)[i] = authCookies[c].token
<1> DEFINE host == authCookies["__Host-cronn-auth"]
           plain == authCookies["cronn-auth"]
<1>1. /\ host \in Cookies /\ plain \in Cookies
      /\ host # NoCookie => host.token \in Tokens
      /\ plain # NoCookie => plain.token \in Tokens
  <2>1. \A c \in CookieNames : authCookies[c] \in Cookies
    BY DEF Shape
  <2>2. "__Host-cronn-auth" \in CookieNames /\ "cronn-auth" \in CookieNames
    BY DEF CookieNames
  <2> QED BY <2>1, <2>2 DEF Cookies
<1>2. TokensSent(p) = (IF Secure(p) THEN IF host # NoCookie THEN <<host.token>> ELSE <<>> ELSE <<>>)
                      \o (IF plain # NoCookie THEN <<plain.token>> ELSE <<>>)
  BY DEF TokensSent, Sent
<1> DEFINE first == host.token
           second == plain.token
<1>3. TokensSent(p) = CASE Secure(p) /\ host # NoCookie /\ plain # NoCookie -> <<first, second>>
                        [] Secure(p) /\ host # NoCookie /\ plain = NoCookie -> <<first>>
                        [] ~(Secure(p) /\ host # NoCookie) /\ plain # NoCookie -> <<second>>
                        [] OTHER -> <<>>
  BY <1>2
<1> DEFINE sent == TokensSent(p)
           useHost == Secure(p) /\ host # NoCookie
           usePlain == plain # NoCookie
<1>4. /\ useHost => first \in Tokens
      /\ usePlain => second \in Tokens
      /\ sent = CASE useHost /\ usePlain -> <<first, second>>
                  [] useHost /\ ~usePlain -> <<first>>
                  [] ~useHost /\ usePlain -> <<second>>
                  [] OTHER -> <<>>
  BY <1>1, <1>3
<1> HIDE DEF first, second, sent, useHost, usePlain
<1>5. /\ sent \in Seq(Tokens)
      /\ \A i \in DOMAIN sent : sent[i] = first \/ sent[i] = second
      /\ useHost => \E i \in DOMAIN sent : sent[i] = first
      /\ usePlain => \E i \in DOMAIN sent : sent[i] = second
  <2>1. CASE useHost /\ usePlain
    <3>1. sent = <<first, second>> /\ first \in Tokens /\ second \in Tokens
      BY <1>4, <2>1
    <3> QED BY <3>1
  <2>2. CASE useHost /\ ~usePlain
    <3>1. sent = <<first>> /\ first \in Tokens
      BY <1>4, <2>2
    <3> QED BY <2>2, <3>1
  <2>3. CASE ~useHost /\ usePlain
    <3>1. sent = <<second>> /\ second \in Tokens
      BY <1>4, <2>3
    <3> QED BY <2>3, <3>1
  <2>4. CASE ~useHost /\ ~usePlain
    <3>1. sent = <<>>
      BY <1>4, <2>4
    <3> QED BY <2>4, <3>1
  <2> QED BY <2>1, <2>2, <2>3, <2>4
<1>6. first = authCookies["__Host-cronn-auth"].token /\ second = authCookies["cronn-auth"].token
  BY DEF first, second
<1>7. ASSUME NEW c \in CookieNames, authCookies[c] # NoCookie, c = "cronn-auth" \/ Secure(p)
      PROVE  \E i \in DOMAIN sent : sent[i] = authCookies[c].token
  <2>1. CASE c = "cronn-auth"
    BY <1>5, <1>6, <1>7, <2>1 DEF usePlain
  <2>2. CASE c = "__Host-cronn-auth"
    BY <1>5, <1>6, <1>7, <2>2 DEF useHost
  <2> QED BY <2>1, <2>2 DEF CookieNames
<1>8. \A i \in DOMAIN sent : \E c \in CookieNames : sent[i] = authCookies[c].token
  BY <1>5, <1>6 DEF CookieNames
<1> QED BY <1>5, <1>7, <1>8 DEF sent

\* What a token not yet forgotten says: the browser drops a cookie whole.
CookiesAreWhole == \A c \in CookieNames : authCookies[c].token = Never => authCookies[c] = NoCookie

\* What a page asks for: its request is written into a free slot, and nothing
\* but navigations of the page are abandoned for it.
LEMMA BrowseAsks ==
    ASSUME Shape, CookiesAreWhole, NEW s \in Slots, NEW p \in PageIds, Browse(s, p)
    PROVE  /\ wire[s].stage = "free"
           /\ \E kind \in Kinds, k \in Settings, form \in Forms :
                /\ wire'[s] = Request(p, kind, k, form)
                /\ kind \in {"poll", "choose"} =>
                     /\ form \in Queries /\ pages[p].at = "dashboard"
                     /\ \/ form = pages[p].controls
                        \/ \E mode \in Modes[k] : form = Choice(p, k, mode) /\ mode \in pages'[p].own[k]
           /\ \A r \in Slots \ {s} : wire'[r] = wire[r] \/ wire'[r] = NoRequest
           /\ wire' = [r \in Slots |-> wire'[r]]
           /\ pages' \in [PageIds -> PageStates]
           /\ \A q \in PageIds : pages'[q].at = pages[q].at /\ pages'[q].controls = pages[q].controls
                                 /\ pages'[q].table = pages[q].table
                                 /\ \A k \in Settings : /\ pages[q].own[k] \subseteq pages'[q].own[k]
                                                        /\ pages'[q].own[k] \subseteq Modes[k]
           /\ UNCHANGED <<now, sessionVars, cache, modeCookies, authCookies, entered>>
<1>1. CASE Load(s, p) \/ Login(s, p) \/ Logout(s, p)
  <2>1. PICK kind \in {"load", "login", "logout"} : Navigate(s, p, kind)
    BY <1>1 DEF Load, Login, Logout
  <2>2. wire' = [r \in Slots |->
                  CASE r = s -> Request(p, kind, NoRequest.setting, NoForm)
                    [] r # s /\ wire[r].page = p /\ wire[r].kind \in Navigations -> NoRequest
                    [] OTHER -> wire[r]]
    BY <2>1 DEF Navigate
  <2>3. wire[s].stage = "free" /\ kind \in Kinds /\ kind \notin {"poll", "choose"}
    BY <2>1 DEF Navigate, Idle, Kinds
  <2>4. wire'[s] = Request(p, kind, NoRequest.setting, NoForm)
    BY <2>2
  <2>5. \A r \in Slots \ {s} : wire'[r] = wire[r] \/ wire'[r] = NoRequest
    BY <2>2
  <2>6. wire' = [r \in Slots |-> wire'[r]]
    BY <2>2
  <2>7. UNCHANGED <<now, sessionVars, cache, modeCookies, authCookies, entered, pages>>
    BY <1>1 DEF Load, Login, Logout, browserVars
  <2> QED BY <2>3, <2>4, <2>5, <2>6, <2>7, Constants DEF Shape
<1>2. CASE Poll(s, p) \/ AskNeighbors(s, p)
  <2>1. /\ pages[p].at = "dashboard"
        /\ Send(s, p, "poll", NoRequest.setting, pages[p].controls) \/ Send(s, p, "neighbors", NoRequest.setting, NoForm)
        /\ UNCHANGED <<now, sessionVars, cache, modeCookies, authCookies, entered, pages>>
    BY <1>2 DEF Poll, AskNeighbors, browserVars
  <2>2. pages[p].controls \in Queries
    BY DEF Shape, PageStates
  <2>3. CASE Send(s, p, "poll", NoRequest.setting, pages[p].controls)
    <3> DEFINE m == Request(p, "poll", NoRequest.setting, pages[p].controls)
    <3>1. wire[s].stage = "free" /\ wire' = [wire EXCEPT ![s] = m]
      BY <2>3 DEF Send, Idle
    <3> HIDE DEF m
    <3>2. /\ wire'[s] = m /\ (\A r \in Slots \ {s} : wire'[r] = wire[r])
          /\ wire' = [r \in Slots |-> wire'[r]]
      BY <3>1 DEF Shape
    <3>3. "poll" \in Kinds /\ pages[p].controls \in Forms
      BY <2>2, QueriesAreForms DEF Kinds
    <3> QED BY <2>1, <2>2, <3>1, <3>2, <3>3, Constants DEF m, Shape
  <2>4. CASE Send(s, p, "neighbors", NoRequest.setting, NoForm)
    <3> DEFINE m == Request(p, "neighbors", NoRequest.setting, NoForm)
    <3>1. wire[s].stage = "free" /\ wire' = [wire EXCEPT ![s] = m]
      BY <2>4 DEF Send, Idle
    <3> HIDE DEF m
    <3>2. /\ wire'[s] = m /\ (\A r \in Slots \ {s} : wire'[r] = wire[r])
          /\ wire' = [r \in Slots |-> wire'[r]]
      BY <3>1 DEF Shape
    <3>3. "neighbors" \in Kinds /\ "neighbors" \notin {"poll", "choose"}
      BY DEF Kinds
    <3> QED BY <2>1, <3>1, <3>2, <3>3, Constants DEF m, Shape
  <2> QED BY <2>1, <2>3, <2>4
<1>3. ASSUME NEW k \in Settings, NEW mode \in Modes[k], ChooseMode(s, p, k, mode)
      PROVE  /\ wire[s].stage = "free"
             /\ \E kind \in Kinds, h \in Settings, form \in Forms :
                  /\ wire'[s] = Request(p, kind, h, form)
                  /\ kind \in {"poll", "choose"} =>
                       /\ form \in Queries /\ pages[p].at = "dashboard"
                       /\ \/ form = pages[p].controls
                          \/ \E way \in Modes[h] : form = Choice(p, h, way) /\ way \in pages'[p].own[h]
             /\ \A r \in Slots \ {s} : wire'[r] = wire[r] \/ wire'[r] = NoRequest
             /\ wire' = [r \in Slots |-> wire'[r]]
             /\ pages' \in [PageIds -> PageStates]
             /\ \A q \in PageIds : pages'[q].at = pages[q].at /\ pages'[q].controls = pages[q].controls
                                   /\ pages'[q].table = pages[q].table
                                   /\ \A h \in Settings : /\ pages[q].own[h] \subseteq pages'[q].own[h]
                                                          /\ pages'[q].own[h] \subseteq Modes[h]
             /\ UNCHANGED <<now, sessionVars, cache, modeCookies, authCookies, entered>>
  <2> DEFINE form == Choice(p, k, mode)
             m == Request(p, "choose", k, form)
  <2>1. /\ pages[p].at = "dashboard" /\ wire[s].stage = "free" /\ wire' = [wire EXCEPT ![s] = m]
        /\ pages' = [pages EXCEPT ![p].own[k] = @ \cup {mode}]
        /\ UNCHANGED <<now, sessionVars, cache, modeCookies, authCookies, entered>>
    BY <1>3 DEF ChooseMode, Send, Idle, Choose
  <2>2. form \in Queries
    <3>1. pages[p].controls \in Queries
      BY DEF Shape, PageStates
    <3>2. mode \in PageModes
      BY DEF PageModes
    <3> QED BY <3>1, <3>2 DEF Choice, Queries
  <2>3. form \in Forms /\ "choose" \in Kinds
    BY <2>2, QueriesAreForms DEF Kinds
  <2> HIDE DEF m, form
  <2>4. /\ wire'[s] = m /\ (\A r \in Slots \ {s} : wire'[r] = wire[r])
        /\ wire' = [r \in Slots |-> wire'[r]]
    BY <2>1 DEF Shape
  <2>5. pages \in [PageIds -> PageStates]
    BY DEF Shape
  <2>6. /\ \A q \in PageIds : pages'[q].at = pages[q].at /\ pages'[q].controls = pages[q].controls
                              /\ pages'[q].table = pages[q].table
        /\ \A q \in PageIds \ {p} : pages'[q] = pages[q]
        /\ pages'[p].own = [pages[p].own EXCEPT ![k] = @ \cup {mode}]
    BY <2>1, <2>5 DEF PageStates
  <2>7. pages[p].own \in [Settings -> SUBSET PageModes] /\ mode \in PageModes
    BY <2>5 DEF PageStates, PageModes
  <2>8. /\ mode \in pages'[p].own[k]
        /\ \A q \in PageIds : \A h \in Settings : /\ pages[q].own[h] \subseteq pages'[q].own[h]
                                                  /\ pages'[q].own[h] \subseteq Modes[h]
    BY <2>6, <2>7 DEF Shape
  <2>9. pages' \in [PageIds -> PageStates]
    <3> DEFINE own == [pages[p].own EXCEPT ![k] = @ \cup {mode}]
    <3>1. own \in [Settings -> SUBSET PageModes]
      BY <2>7
    <3>2. pages' = [pages EXCEPT ![p] = [pages[p] EXCEPT !.own = own]]
      BY <2>1, <2>5
    <3> HIDE DEF own
    <3>3. [pages[p] EXCEPT !.own = own] \in PageStates
      BY <2>5, <3>1 DEF PageStates
    <3> QED BY <2>5, <3>2, <3>3
  <2> QED BY <2>1, <2>2, <2>3, <2>4, <2>6, <2>8, <2>9 DEF m, form
<1> QED BY <1>1, <1>2, <1>3 DEF Browse

\* A request of a page has its type.
LEMMA AskedTyped ==
    ASSUME Shape, CookiesAreWhole, NEW p \in PageIds, NEW kind \in Kinds, NEW k \in Settings, NEW form \in Forms
    PROVE  Request(p, kind, k, form) \in Requests
<1>1. modeCookies \in Forms /\ entered[Secure(p)].token \in Tokens \cup {Never}
  <2>1. entered[TRUE] \in Cookies /\ entered[FALSE] \in Cookies
    BY DEF Shape
  <2>2. Secure(p) = TRUE \/ Secure(p) = FALSE
    BY DEF Secure
  <2> QED BY <2>1, <2>2 DEF Shape, Cookies
<1>2. TokensSent(p) \in Seq(Tokens)
  BY TokensSentAre DEF CookiesAreWhole
<1> QED BY <1>1, <1>2, RequestTyped

\* The state keeps its shape when a page asks.
LEMMA ShapeBrowse ==
    ASSUME Shape, CookiesAreWhole, NEW s \in Slots, NEW p \in PageIds, Browse(s, p)
    PROVE  Shape'
<1>1. PICK kind \in Kinds, k \in Settings, form \in Forms : wire'[s] = Request(p, kind, k, form)
  BY BrowseAsks
<1>2. wire'[s] \in Requests
  BY <1>1, AskedTyped
<1>3. wire'[s].stage = "sent"
  BY <1>1, RequestIs
<1>4. \A r \in Slots : wire'[r] \in Requests /\ Proper(wire'[r])
  <2> TAKE r \in Slots
  <2>1. wire[r] \in Requests /\ Proper(wire[r])
    BY DEF Shape
  <2>2. NoRequest \in Requests /\ Proper(NoRequest)
    BY NoRequestIs DEF Proper
  <2>3. Proper(wire'[s])
    BY <1>3 DEF Proper
  <2>4. r = s \/ wire'[r] = wire[r] \/ wire'[r] = NoRequest
    BY BrowseAsks
  <2> QED BY <1>2, <2>1, <2>2, <2>3, <2>4
<1>5. wire' \in [Slots -> Requests]
  <2>1. wire' = [r \in Slots |-> wire'[r]]
    BY BrowseAsks
  <2> QED BY <1>4, <2>1
<1>6. /\ pages' \in [PageIds -> PageStates]
      /\ \A q \in PageIds : \A h \in Settings : pages'[q].own[h] \subseteq Modes[h]
      /\ UNCHANGED <<now, sessionVars, cache, modeCookies, authCookies, entered>>
  BY BrowseAsks
<1> QED BY <1>4, <1>5, <1>6 DEF Shape, sessionVars

\* An answer is the request without what only the server needed.
LEMMA AnswerIs ==
    ASSUME wire \in [Slots -> Requests], NEW s \in Slots, NEW m \in Requests, Answer(s, m)
    PROVE  /\ wire' \in [Slots -> Requests] /\ \A r \in Slots \ {s} : wire'[r] = wire[r]
           /\ wire'[s].stage = m.stage /\ wire'[s].page = m.page /\ wire'[s].kind = m.kind
           /\ wire'[s].query = m.query /\ wire'[s].begun = m.begun /\ wire'[s].list = m.list
           /\ wire'[s].token = m.token /\ wire'[s].tokens = <<>> /\ wire'[s].due = Never
<1> DEFINE a == [m EXCEPT !.tokens = <<>>, !.cookies = NoForm, !.due = Never]
<1>1. wire' = [wire EXCEPT ![s] = a]
  BY DEF Answer
<1>2. <<>> \in Seq(Tokens) /\ NoForm \in Forms
  BY Constants
<1>3. a \in Requests
  BY <1>2 DEF Requests
<1>4. /\ a.stage = m.stage /\ a.page = m.page /\ a.kind = m.kind
      /\ a.query = m.query /\ a.begun = m.begun /\ a.list = m.list
  BY DEF Requests
<1>5. a.token = m.token /\ a.tokens = <<>> /\ a.due = Never
  BY DEF Requests
<1> HIDE DEF a
<1> QED BY <1>1, <1>3, <1>4, <1>5

\* The query of a handler has a mode for every setting.
LEMMA QueryTyped ==
    ASSUME NEW form \in Forms, NEW cookies \in Forms
    PROVE  Query(form, cookies) \in Queries
<1>1. \A k \in Settings : Mode(k, form, cookies) \in Modes[k]
  BY PortalAssumption DEF Mode, Forms
<1>2. \A k \in Settings : Mode(k, form, cookies) \in PageModes
  BY <1>1 DEF PageModes
<1> QED BY <1>1, <1>2 DEF Query, Queries

\* What a page sent comes before the cookies.
LEMMA QueryIsForm ==
    ASSUME NEW form \in Queries, NEW cookies
    PROVE  Query(form, cookies) = form
<1>1. \A k \in Settings : Mode(k, form, cookies) = form[k]
  BY PortalAssumption DEF Mode, Queries
<1> QED BY <1>1 DEF Query, Queries

\* What the server does with a request: the slot keeps its page and its kind,
\* and the browser is as it was, but for the logins in force.
LEMMA HandleAnswers ==
    ASSUME Shape, NEW s \in Slots, Respond(s)
    PROVE  /\ wire[s].stage \in {"sent", "admitted", "fetching"}
           /\ wire'[s].stage \in {"served", "refused", "fetching"}
           /\ wire'[s].page = wire[s].page /\ wire'[s].kind = wire[s].kind
           /\ wire'[s].tokens = <<>> /\ wire'[s].due = Never
           /\ wire' \in [Slots -> Requests] /\ Proper(wire'[s])
           /\ \A r \in Slots \ {s} : wire'[r] = wire[r]
           /\ wire'[s].stage = "served" /\ wire'[s].kind \in {"poll", "choose"}
                => wire[s].stage = "admitted" /\ wire'[s].query = Query(wire[s].query, wire[s].cookies)
           /\ cache' \in [list : Times, at : Nat]
           /\ entered' \in {entered, NoLogins}
           /\ UNCHANGED <<now, pages, modeCookies, authCookies>>
<1> DEFINE m == wire[s]
<1>0. /\ wire \in [Slots -> Requests] /\ m \in Requests /\ Proper(m) /\ now \in Nat
      /\ cache \in [list : Times, at : Nat]
  BY DEF Shape
<1> DEFINE Goal(n) ==
             /\ n \in Requests
             /\ n.page = m.page /\ n.kind = m.kind
             /\ n.stage \in {"served", "refused", "fetching"} /\ Proper(n)
             /\ n.stage = "served" /\ n.kind \in {"poll", "choose"}
                => m.stage = "admitted" /\ n.query = Query(m.query, m.cookies)
<1>1. ASSUME NEW n, Goal(n), Answer(s, n), m.stage \in {"sent", "admitted", "fetching"}
      PROVE  /\ m.stage \in {"sent", "admitted", "fetching"}
             /\ wire'[s].stage \in {"served", "refused", "fetching"}
             /\ wire'[s].page = wire[s].page /\ wire'[s].kind = wire[s].kind
             /\ wire'[s].tokens = <<>> /\ wire'[s].due = Never
             /\ wire' \in [Slots -> Requests] /\ Proper(wire'[s])
             /\ \A r \in Slots \ {s} : wire'[r] = wire[r]
             /\ wire'[s].stage = "served" /\ wire'[s].kind \in {"poll", "choose"}
                  => m.stage = "admitted" /\ wire'[s].query = Query(m.query, m.cookies)
  BY <1>0, <1>1, AnswerIs DEF Proper
<1>2. ASSUME NEW t \in Tokens, HandleLogin(s, t)
      PROVE  \E n : Goal(n) /\ Answer(s, n) /\ m.stage \in {"sent", "admitted", "fetching"}
  <2> DEFINE n == [m EXCEPT !.stage = "served", !.token = t]
  <2>1. m.stage = "sent" /\ m.kind = "login" /\ Answer(s, n)
    BY <1>2 DEF HandleLogin
  <2>2. n \in Requests /\ n.page = m.page /\ n.kind = m.kind /\ n.stage = "served"
    BY <1>0 DEF Requests, Stages
  <2> HIDE DEF n
  <2> QED BY <2>1, <2>2 DEF Proper
<1>3. CASE Refuse(s)
  <2> DEFINE n == [m EXCEPT !.stage = "refused"]
  <2>1. m.stage = "sent" /\ Answer(s, n)
    BY <1>3 DEF Refuse
  <2>2. n \in Requests /\ n.page = m.page /\ n.kind = m.kind /\ n.stage = "refused"
    BY <1>0 DEF Requests, Stages
  <2> HIDE DEF n
  <2>3. \E n0 : Goal(n0) /\ Answer(s, n0) /\ m.stage \in {"sent", "admitted", "fetching"}
    BY <2>1, <2>2 DEF Proper
  <2> QED BY <1>0, <1>1, <1>3, <2>3 DEF Refuse, browserVars
<1>4. CASE HandleJobs(s)
  <2> DEFINE query == Query(m.query, m.cookies)
             n == [m EXCEPT !.stage = "served", !.query = query]
  <2>1. m.stage = "admitted" /\ Answer(s, n)
    BY <1>4 DEF HandleJobs, Admitted
  <2>2. query \in Queries
    BY <1>0, QueryTyped DEF Requests
  <2>3. query \in Forms
    BY <2>2, QueriesAreForms
  <2> HIDE DEF query
  <2>4. /\ n \in Requests /\ n.page = m.page /\ n.kind = m.kind /\ n.stage = "served"
        /\ n.query = query
    BY <1>0, <2>3 DEF Requests, Stages
  <2> HIDE DEF n
  <2>5. \E n0 : Goal(n0) /\ Answer(s, n0) /\ m.stage \in {"sent", "admitted", "fetching"}
    BY <2>1, <2>2, <2>4 DEF Proper, query
  <2> QED BY <1>0, <1>1, <1>4, <2>5 DEF HandleJobs, browserVars
<1>5. CASE HandleLogout(s)
  <2> DEFINE n == [m EXCEPT !.stage = "served"]
  <2>1. m.stage = "admitted" /\ m.kind = "logout" /\ Answer(s, n)
    BY <1>5 DEF HandleLogout, Admitted
  <2>2. n \in Requests /\ n.page = m.page /\ n.kind = m.kind /\ n.stage = "served"
    BY <1>0 DEF Requests, Stages
  <2> HIDE DEF n
  <2>3. \E n0 : Goal(n0) /\ Answer(s, n0) /\ m.stage \in {"sent", "admitted", "fetching"}
    BY <2>1, <2>2 DEF Proper
  <2> QED BY <1>0, <1>1, <1>5, <2>3 DEF HandleLogout
<1>6. CASE HandleNeighbors(s)
  <2> DEFINE n == IF Hit THEN [m EXCEPT !.stage = "served", !.list = cache.list, !.begun = now]
                  ELSE [m EXCEPT !.stage = "fetching", !.begun = now, !.token = Never]
  <2>1. m.stage = "admitted" /\ m.kind = "neighbors" /\ Answer(s, n)
    BY <1>6 DEF HandleNeighbors, Admitted
  <2>2. n \in Requests /\ n.page = m.page /\ n.kind = m.kind /\ n.stage \in {"served", "fetching"}
    <3>1. CASE Hit
      BY <1>0, <3>1 DEF Requests, Stages
    <3>2. CASE ~Hit
      BY <1>0, <3>2 DEF Requests, Stages
    <3> QED BY <3>1, <3>2
  <2> HIDE DEF n
  <2>3. \E n0 : Goal(n0) /\ Answer(s, n0) /\ m.stage \in {"sent", "admitted", "fetching"}
    BY <2>1, <2>2 DEF Proper
  <2> QED BY <1>0, <1>1, <1>6, <2>3 DEF HandleNeighbors, browserVars
<1>7. CASE ReadSource(s)
  <2> DEFINE n == [m EXCEPT !.list = now]
  <2>1. m.stage = "fetching" /\ m.kind = "neighbors" /\ Answer(s, n)
    BY <1>0, <1>7 DEF ReadSource, Proper
  <2>2. n \in Requests /\ n.page = m.page /\ n.kind = m.kind /\ n.stage = "fetching"
    BY <1>0, <2>1 DEF Requests, Times
  <2> HIDE DEF n
  <2>3. \E n0 : Goal(n0) /\ Answer(s, n0) /\ m.stage \in {"sent", "admitted", "fetching"}
    BY <2>1, <2>2 DEF Proper
  <2> QED BY <1>0, <1>1, <1>7, <2>3 DEF ReadSource, browserVars
<1>8. CASE EndFetch(s)
  <2> DEFINE n == [m EXCEPT !.stage = "served", !.begun = now]
  <2>1. m.stage = "fetching" /\ m.kind = "neighbors" /\ Answer(s, n)
    BY <1>0, <1>8 DEF EndFetch, Proper
  <2>2. n \in Requests /\ n.page = m.page /\ n.kind = m.kind /\ n.stage = "served"
    BY <1>0, <2>1 DEF Requests, Stages
  <2> HIDE DEF n
  <2>3. \E n0 : Goal(n0) /\ Answer(s, n0) /\ m.stage \in {"sent", "admitted", "fetching"}
    BY <2>1, <2>2 DEF Proper
  <2>4. cache' \in [list : Times, at : Nat]
    BY <1>0, <1>8 DEF EndFetch, Store, Requests
  <2> QED BY <1>0, <1>1, <1>8, <2>3, <2>4 DEF EndFetch, browserVars
<1>9. CASE FetchFails(s)
  <2> DEFINE n == [m EXCEPT !.stage = "served", !.list = NoList, !.begun = now]
  <2>1. m.stage = "fetching" /\ m.kind = "neighbors" /\ Answer(s, n)
    BY <1>0, <1>9 DEF FetchFails, Proper
  <2>2. n \in Requests /\ n.page = m.page /\ n.kind = m.kind /\ n.stage = "served"
    BY <1>0, <2>1 DEF Requests, Stages, Times
  <2> HIDE DEF n
  <2>3. \E n0 : Goal(n0) /\ Answer(s, n0) /\ m.stage \in {"sent", "admitted", "fetching"}
    BY <2>1, <2>2 DEF Proper
  <2> QED BY <1>0, <1>1, <1>9, <2>3 DEF FetchFails, browserVars
<1> HIDE DEF Goal
<1>10. CASE \E t \in Tokens : HandleLogin(s, t)
  <2>1. PICK t \in Tokens : HandleLogin(s, t)
    BY <1>10
  <2> QED BY <1>0, <1>1, <1>2, <2>1 DEF HandleLogin, browserVars
<1> QED BY <1>3, <1>4, <1>5, <1>6, <1>7, <1>8, <1>9, <1>10 DEF Respond

\* What authMiddleware does with a request it lets pass: nothing of it is lost
\* but the history of the login it relied on.
LEMMA AdmitIs ==
    ASSUME Shape, NEW s \in Slots, Admit(s)
    PROVE  /\ wire[s].stage = "sent" /\ wire[s].kind # "login" /\ wire'[s].stage = "admitted"
           /\ wire'[s].page = wire[s].page /\ wire'[s].kind = wire[s].kind
           /\ wire'[s].query = wire[s].query /\ wire'[s].tokens = wire[s].tokens
           /\ wire'[s].list = wire[s].list /\ wire'[s].due = Never
           /\ wire' \in [Slots -> Requests] /\ Proper(wire'[s])
           /\ \A r \in Slots \ {s} : wire'[r] = wire[r]
           /\ Allowed(wire[s].tokens) /\ ValidateSessions(wire[s].tokens)
           /\ UNCHANGED <<now, cache, modeCookies, pages, authCookies, entered>>
<1> DEFINE m == wire[s]
           a == [m EXCEPT !.stage = "admitted", !.due = Never]
<1>1. wire \in [Slots -> Requests] /\ m \in Requests
  BY DEF Shape
<1>2. /\ m.stage = "sent" /\ m.kind # "login" /\ wire' = [wire EXCEPT ![s] = a]
      /\ Allowed(m.tokens) /\ ValidateSessions(m.tokens)
      /\ UNCHANGED <<now, cache, modeCookies, pages, authCookies, entered>>
  BY DEF Admit, browserVars
<1>3. /\ a \in Requests /\ a.stage = "admitted" /\ a.page = m.page /\ a.kind = m.kind
      /\ a.query = m.query /\ a.tokens = m.tokens /\ a.list = m.list /\ a.due = Never
  BY <1>1 DEF Requests, Stages
<1> HIDE DEF a
<1>4. wire'[s] = a /\ wire' \in [Slots -> Requests] /\ \A r \in Slots \ {s} : wire'[r] = wire[r]
  BY <1>1, <1>2, <1>3
<1>5. Proper(wire'[s])
  BY <1>3, <1>4 DEF Proper
<1> QED BY <1>2, <1>3, <1>4, <1>5

\* Consuming an answer frees its slot, and those of the page it replaces.
LEMMA Consumed ==
    ASSUME Shape, NEW s \in Slots, NEW p \in PageIds, p = wire[s].page, Done(s) \/ DoneAll(p)
    PROVE  /\ wire'[s] = NoRequest /\ \A r \in Slots : wire'[r] = wire[r] \/ wire'[r] = NoRequest
           /\ wire' = [r \in Slots |-> wire'[r]]
           /\ DoneAll(p) => \A r \in Slots : wire[r].page = p => wire'[r] = NoRequest
<1>1. wire \in [Slots -> Requests]
  BY DEF Shape
<1> HIDE DEF NoRequest
<1>2. CASE Done(s)
  <2>1. wire'[s] = NoRequest /\ (\A r \in Slots : wire'[r] = wire[r] \/ wire'[r] = NoRequest)
        /\ wire' = [r \in Slots |-> wire'[r]]
    BY <1>1, <1>2 DEF Done
  <2>2. DoneAll(p) => \A r \in Slots : wire[r].page = p => wire'[r] = NoRequest
    BY DEF DoneAll
  <2> QED BY <2>1, <2>2
<1>3. CASE DoneAll(p)
  BY <1>3 DEF DoneAll
<1> QED BY <1>2, <1>3

\* What a page does with an answer: only this page changes, and when another
\* page comes up in its place, nothing it asked for is left.
LEMMA ReceiveShows ==
    ASSUME Shape, NEW s \in Slots, Receive(s)
    PROVE  LET p == wire[s].page
           IN  /\ wire[s].stage \in {"served", "refused"} /\ p \in PageIds
               /\ Done(s) \/ DoneAll(p)
               /\ pages' \in [PageIds -> PageStates]
               /\ \A q \in PageIds : \A k \in Settings : pages'[q].own[k] \subseteq Modes[k]
               /\ \A q \in PageIds \ {p} : pages'[q] = pages[q]
               /\ \/ DoneAll(p)
                  \/ pages'[p].at = pages[p].at /\ pages'[p].own = pages[p].own
               /\ \/ pages' = pages
                  \/ pages'[p].at # "dashboard"
                  \/ /\ wire[s].stage = "served" /\ wire[s].kind = "load"
                     /\ \A k \in Settings : {pages'[p].controls[k], pages'[p].table[k]} \subseteq pages'[p].own[k]
                  \/ /\ wire[s].stage = "served" /\ wire[s].kind \in {"poll", "choose"}
                     /\ pages'[p].table = wire[s].query
                     /\ pages'[p].controls \in {pages[p].controls, wire[s].query}
               /\ modeCookies' \in Forms /\ authCookies' \in [CookieNames -> Cookies]
               /\ entered' \in [BOOLEAN -> Cookies]
               /\ UNCHANGED <<now, sessionVars, cache>>
<1> DEFINE p == wire[s].page
           m == wire[s]
<1>1. /\ m \in Requests /\ Proper(m) /\ p \in PageIds /\ pages \in [PageIds -> PageStates]
      /\ modeCookies \in Forms /\ now \in Nat
      /\ authCookies \in [CookieNames -> Cookies] /\ entered \in [BOOLEAN -> Cookies]
      /\ \A q \in PageIds : \A k \in Settings : pages[q].own[k] \subseteq Modes[k]
  BY DEF Shape, Requests
<1> DEFINE login == [Blank EXCEPT !.at = "login"]
<1>2. /\ Blank \in PageStates /\ Blank.at = "blank" /\ \A k \in Settings : Blank.own[k] = {}
      /\ login \in PageStates /\ login.at = "login" /\ \A k \in Settings : login.own[k] = {}
  <2>1. [k \in Settings |-> {}] \in [Settings -> SUBSET PageModes]
    OBVIOUS
  <2> QED BY <2>1, Constants DEF Blank, PageStates
<1>3. NoLogins \in [BOOLEAN -> Cookies]
  BY Constants DEF NoLogins
<1> HIDE DEF login
<1>4. ASSUME ShowLogin(p)
      PROVE  /\ pages' \in [PageIds -> PageStates] /\ pages'[p].at # "dashboard"
             /\ \A q \in PageIds : \A k \in Settings : pages'[q].own[k] \subseteq Modes[k]
             /\ \A q \in PageIds \ {p} : pages'[q] = pages[q]
             /\ modeCookies' = modeCookies
  BY <1>1, <1>2, <1>4 DEF ShowLogin, login
<1>5. CASE ReceiveRefusal(s)
  BY <1>1, <1>4, <1>5 DEF ReceiveRefusal
<1>6. CASE ReceiveJobs(s)
  <2>1. m.stage = "served" /\ UNCHANGED <<now, sessionVars, cache, authCookies, entered>>
    BY <1>6 DEF ReceiveJobs
  <2>2. ASSUME m.kind \in {"load", "poll", "choose"}
        PROVE  m.query \in Queries /\ m.query \in Forms /\ \A k \in Settings : m.query[k] \in Modes[k]
    BY <1>1, <2>1, <2>2, QueriesAreForms DEF Proper, Queries
  <2>3. CASE m.kind = "load" /\ ShowDashboard(p, m.query) /\ DoneAll(p)
    <3> DEFINE own == [k \in Settings |-> {m.query[k]}]
               page == [at |-> "dashboard", controls |-> m.query, table |-> m.query, own |-> own]
    <3>1. pages' = [pages EXCEPT ![p] = page] /\ modeCookies' = modeCookies
      BY <2>3 DEF ShowDashboard
    <3>2. own \in [Settings -> SUBSET PageModes] /\ \A k \in Settings : own[k] = {m.query[k]} /\ own[k] \subseteq Modes[k]
      BY <2>2, <2>3 DEF Queries
    <3> HIDE DEF own
    <3>3. page \in PageStates /\ page.controls = m.query /\ page.table = m.query /\ page.own = own
      BY <2>2, <2>3, <3>2 DEF PageStates
    <3> HIDE DEF page
    <3>4. pages'[p] = page /\ (\A q \in PageIds \ {p} : pages'[q] = pages[q]) /\ pages' \in [PageIds -> PageStates]
      BY <1>1, <3>1, <3>3
    <3>5. \A q \in PageIds : \A k \in Settings : pages'[q].own[k] \subseteq Modes[k]
      BY <1>1, <3>2, <3>3, <3>4
    <3>6. \A k \in Settings : {pages'[p].controls[k], pages'[p].table[k]} \subseteq pages'[p].own[k]
      BY <3>2, <3>3, <3>4
    <3> QED BY <1>1, <2>1, <2>3, <3>1, <3>4, <3>5, <3>6
  <2>4. CASE m.kind = "poll" /\ ShowTable(p, m.query) /\ Done(s)
    <3>1. pages' = [pages EXCEPT ![p] = [pages[p] EXCEPT !.table = m.query]] /\ modeCookies' = modeCookies
      BY <1>1, <2>4 DEF ShowTable
    <3> DEFINE page == [pages[p] EXCEPT !.table = m.query]
    <3>2. /\ page \in PageStates /\ page.at = pages[p].at /\ page.own = pages[p].own
          /\ page.table = m.query /\ page.controls = pages[p].controls
      BY <1>1, <2>2, <2>4 DEF PageStates
    <3> HIDE DEF page
    <3>3. pages'[p] = page /\ (\A q \in PageIds \ {p} : pages'[q] = pages[q]) /\ pages' \in [PageIds -> PageStates]
      BY <1>1, <3>1, <3>2 DEF page
    <3>4. \A q \in PageIds : \A k \in Settings : pages'[q].own[k] \subseteq Modes[k]
      BY <1>1, <3>2, <3>3
    <3> QED BY <1>1, <2>1, <2>4, <3>1, <3>2, <3>3, <3>4
  <2>5. CASE m.kind = "choose" /\ ShowChoice(p, m.setting, m.query) /\ Done(s)
    <3> DEFINE page == [pages[p] EXCEPT !.table = m.query, !.controls = m.query]
    <3>1. /\ pages' = [pages EXCEPT ![p].table = m.query, ![p].controls = m.query]
          /\ modeCookies' = [modeCookies EXCEPT ![m.setting] = m.query[m.setting]]
      BY <2>5 DEF ShowChoice
    <3>2. /\ page \in PageStates /\ page.at = pages[p].at /\ page.own = pages[p].own
          /\ page.table = m.query /\ page.controls = m.query
      BY <1>1, <2>2, <2>5 DEF PageStates
    <3>3. pages' = [pages EXCEPT ![p] = page]
      BY <1>1, <3>1 DEF PageStates
    <3> HIDE DEF page
    <3>4. pages'[p] = page /\ (\A q \in PageIds \ {p} : pages'[q] = pages[q]) /\ pages' \in [PageIds -> PageStates]
      BY <1>1, <3>2, <3>3
    <3>5. \A q \in PageIds : \A k \in Settings : pages'[q].own[k] \subseteq Modes[k]
      BY <1>1, <3>2, <3>4
    <3>6. modeCookies' \in Forms
      BY <1>1, <2>2, <2>5, <3>1 DEF Forms, Requests, Queries
    <3> QED BY <1>1, <2>1, <2>5, <3>2, <3>4, <3>5, <3>6
  <2> QED BY <1>6, <2>3, <2>4, <2>5 DEF ReceiveJobs
<1>7. CASE ReceiveLogin(s)
  <2>1. Cookie(m.token) \in Cookies
    BY <1>1, Constants DEF Cookie, Cookies, Requests
  <2>2. authCookies' \in [CookieNames -> Cookies] /\ entered' \in [BOOLEAN -> Cookies]
    <3>1. authCookies' = [authCookies EXCEPT ![CookieName(p)] = Cookie(m.token)]
      BY <1>7 DEF ReceiveLogin
    <3>2. entered' = [secure \in BOOLEAN |-> IF Secure(p) => secure THEN Cookie(m.token) ELSE entered[secure]]
      BY <1>7 DEF ReceiveLogin
    <3> QED BY <1>1, <2>1, <3>1, <3>2
  <2>3. pages' = [pages EXCEPT ![p] = Blank] /\ DoneAll(p)
        /\ m.stage = "served" /\ UNCHANGED <<now, sessionVars, cache, modeCookies>>
    BY <1>7 DEF ReceiveLogin
  <2>4. /\ pages' \in [PageIds -> PageStates] /\ pages'[p].at # "dashboard"
        /\ \A q \in PageIds : \A k \in Settings : pages'[q].own[k] \subseteq Modes[k]
        /\ \A q \in PageIds \ {p} : pages'[q] = pages[q]
    BY <1>1, <1>2, <2>3
  <2> QED BY <1>1, <2>2, <2>3, <2>4
<1>8. CASE ReceiveLogout(s)
  <2>1. authCookies' \in [CookieNames -> Cookies]
    BY <1>1, <1>8, Constants DEF ReceiveLogout
  <2> QED BY <1>1, <1>3, <1>4, <1>8, <2>1 DEF ReceiveLogout
<1>9. CASE ReceiveNeighbors(s)
  BY <1>1, <1>9 DEF ReceiveNeighbors, browserVars
<1> QED BY <1>5, <1>6, <1>7, <1>8, <1>9 DEF Receive

\* Time passes: cookies are forgotten, or stay as they were.
LEMMA TickForgets ==
    ASSUME Shape, Tick
    PROVE  /\ now' = now + 1 /\ now < MaxTime
           /\ \A s \in Slots : wire[s].stage = "fetching" => now < wire[s].begun + FetchTimeout
           /\ \A c \in CookieNames :
                authCookies'[c] = IF now' < authCookies[c].until THEN authCookies[c] ELSE NoCookie
           /\ \A b \in BOOLEAN :
                entered'[b] = IF now' < entered[b].until THEN entered[b] ELSE NoCookie
           /\ authCookies' \in [CookieNames -> Cookies] /\ entered' \in [BOOLEAN -> Cookies]
           /\ UNCHANGED <<sessions, issued, revoked, cache, modeCookies, pages, wire>>
<1>1. /\ now' = now + 1 /\ now < MaxTime
      /\ \A s \in Slots : wire[s].stage = "fetching" => now < wire[s].begun + FetchTimeout
      /\ authCookies' = [c \in CookieNames |-> IF now' < authCookies[c].until THEN authCookies[c] ELSE NoCookie]
      /\ entered' = [b \in BOOLEAN |-> IF now' < entered[b].until THEN entered[b] ELSE NoCookie]
      /\ UNCHANGED <<sessions, issued, revoked, cache, modeCookies, pages, wire>>
  BY DEF Tick, sessionVars
<1>2. authCookies \in [CookieNames -> Cookies] /\ entered \in [BOOLEAN -> Cookies] /\ NoCookie \in Cookies
  BY Constants DEF Shape
<1> QED BY <1>1, <1>2

-----------------------------------------------------------------------------
(* The sessions of the server.                                               *)

\* A session in the map was drawn and has its time, and no logout invalidated it.
SessionInv ==
    /\ now \in 0 .. MaxTime
    /\ DOMAIN issued \subseteq Tokens /\ \A t \in DOMAIN issued : issued[t] \in 0 .. now
    /\ DOMAIN sessions \subseteq DOMAIN issued /\ \A t \in DOMAIN sessions : sessions[t] = issued[t]
    /\ revoked \subseteq DOMAIN issued /\ \A t \in revoked : t \notin DOMAIN sessions

\* A session that was drawn is in the map as long as it lasts.
Lasts(t) == t \in DOMAIN issued /\ (t \in DOMAIN sessions \/ now - issued[t] > LoginTTL)

\* A login draws a token that nobody had, and no session ends too early by its
\* clean-up.
LEMMA CreateKeeps ==
    ASSUME SessionInv, NEW t \in Tokens, CreateSession(t), now' = now
    PROVE  /\ SessionInv' /\ t \notin DOMAIN issued /\ DOMAIN issued' = DOMAIN issued \cup {t}
           /\ Lasts(t)' /\ \A u : Lasts(u) => Lasts(u)'
<1>1. /\ t \notin DOMAIN issued /\ revoked' = revoked
      /\ issued' = [u \in DOMAIN issued \cup {t} |-> IF u = t THEN now ELSE issued[u]]
      /\ sessions' = [u \in {v \in DOMAIN sessions : ~Expired(v)} \cup {t} |-> IF u = t THEN now ELSE sessions[u]]
  BY DEF CreateSession, Fresh
<1>2. /\ DOMAIN issued' = DOMAIN issued \cup {t} /\ issued'[t] = now
      /\ \A u \in DOMAIN issued : issued'[u] = issued[u]
      /\ DOMAIN sessions' = {v \in DOMAIN sessions : ~Expired(v)} \cup {t} /\ sessions'[t] = now
      /\ \A u \in DOMAIN sessions : ~Expired(u) => sessions'[u] = sessions[u]
  BY <1>1 DEF SessionInv
<1>3. now \in Nat /\ MaxTime \in Nat
  BY Constants DEF SessionInv
<1>4. SessionInv'
  BY <1>1, <1>2, <1>3 DEF SessionInv
<1>5. Lasts(t)'
  BY <1>2 DEF Lasts
<1>6. ASSUME NEW u, Lasts(u) PROVE Lasts(u)'
  BY <1>2, <1>6 DEF Lasts, SessionInv, Expired
<1> QED BY <1>1, <1>2, <1>4, <1>5, <1>6

\* Looking for a valid token removes expired sessions only.
LEMMA ValidateKeeps ==
    ASSUME SessionInv, NEW sent \in Seq(Tokens), ValidateSessions(sent), now' = now
    PROVE  SessionInv' /\ UNCHANGED issued /\ \A u : Lasts(u) => Lasts(u)'
<1> DEFINE met == {sent[i] : i \in {k \in DOMAIN sent : \A h \in 1 .. k : ~Valid(sent[h])}}
           keep == DOMAIN sessions \ met
<1>1. sessions' = [u \in keep |-> sessions[u]] /\ UNCHANGED <<issued, revoked>>
  BY DEF ValidateSessions, Restrict
<1>2. ASSUME NEW u \in met PROVE ~Valid(u)
  <2>1. PICK k \in DOMAIN sent : (\A h \in 1 .. k : ~Valid(sent[h])) /\ u = sent[k]
    OBVIOUS
  <2>2. k \in 1 .. k
    OBVIOUS
  <2> QED BY <2>1, <2>2
<1> HIDE DEF met
<1>3. \A u \in DOMAIN sessions : u \notin keep => Expired(u)
  BY <1>2 DEF Valid
<1> HIDE DEF keep
<1>4. DOMAIN sessions' = keep /\ \A u \in keep : sessions'[u] = sessions[u]
  BY <1>1
<1>5. keep \subseteq DOMAIN sessions
  BY DEF keep
<1>6. SessionInv'
  BY <1>1, <1>4, <1>5 DEF SessionInv
<1>7. ASSUME NEW u, Lasts(u) PROVE Lasts(u)'
  BY <1>1, <1>3, <1>4, <1>7 DEF Lasts, Expired, SessionInv
<1> QED BY <1>1, <1>6, <1>7

\* A logout ends one session, the first of those that were sent.
LEMMA LogoutKeeps ==
    ASSUME SessionInv, NEW sent \in Seq(Tokens), sent[1] \in DOMAIN issued, LogoutSession(sent), now' = now,
           \A i \in DOMAIN sent : sent[i] \in DOMAIN issued
    PROVE  SessionInv' /\ UNCHANGED issued /\ \A u : Lasts(u) /\ u # sent[1] => Lasts(u)'
<1> DEFINE t == sent[1]
           keep == DOMAIN sessions \ {t}
<1>1. /\ sessions' = [u \in keep |-> sessions[u]] /\ revoked' = revoked \cup {t} /\ UNCHANGED issued
  BY DEF LogoutSession, Restrict
<1>2. t \in DOMAIN issued
  OBVIOUS
<1> HIDE DEF t
<1>3. DOMAIN sessions' = keep /\ \A u \in keep : sessions'[u] = sessions[u]
  BY <1>1
<1>4. SessionInv'
  BY <1>1, <1>2, <1>3 DEF SessionInv
<1>5. ASSUME NEW u, Lasts(u), u # t PROVE Lasts(u)'
  BY <1>1, <1>3, <1>5 DEF Lasts
<1> QED BY <1>1, <1>4, <1>5 DEF t

-----------------------------------------------------------------------------
(* The logins of the browser.                                                *)

TokensOf(m) == {m.tokens[i] : i \in DOMAIN m.tokens}
LoggedIn(m) == m.stage = "served" /\ m.kind = "login"

\* The server has drawn every token the browser knows, and a request it lets
\* pass has one.
KnownInv ==
    /\ CookiesAreWhole
    /\ \A c \in CookieNames : authCookies[c].token \in DOMAIN issued \cup {Never}
    /\ \A s \in Slots : TokensOf(wire[s]) \subseteq DOMAIN issued
    /\ \A s \in Slots : LoggedIn(wire[s]) => wire[s].token \in DOMAIN issued
    /\ \A s \in Slots : wire[s].stage = "admitted" => TokensOf(wire[s]) # {}

\* A login in force has its cookie, and a request that relies on one sends its
\* token.
ForceInv ==
    /\ entered[FALSE].token # Never => authCookies["cronn-auth"] = entered[FALSE]
    /\ entered[TRUE].token # Never => \E c \in CookieNames : authCookies[c] = entered[TRUE]
    /\ \A s \in Slots : wire[s].stage = "sent" /\ wire[s].due # Never => wire[s].due \in TokensOf(wire[s])

\* The session of a login in force lasts, and so does the one of a login whose
\* answer is on its way: no cookie and no request has its token yet.
ForceLasts(b) == entered[b].token # Never => Lasts(entered[b].token)

AnswerLasts(s) ==
    LoggedIn(wire[s]) =>
        /\ Lasts(wire[s].token)
        /\ \A c \in CookieNames : authCookies[c].token # wire[s].token
        /\ \A r \in Slots : wire[s].token \notin TokensOf(wire[r])
        /\ \A r \in Slots \ {s} : LoggedIn(wire[r]) => wire[r].token # wire[s].token

LastingInv == (\A b \in BOOLEAN : ForceLasts(b)) /\ \A s \in Slots : AnswerLasts(s)

LoginInv == Shape /\ SessionInv /\ KnownInv /\ ForceInv /\ LastingInv

\* A slot without a request, or with a new one, brings no login.
LEMMA NothingSent ==
    /\ TokensOf(NoRequest) = {} /\ ~LoggedIn(NoRequest)
    /\ \A m : m.tokens = <<>> => TokensOf(m) = {}
<1>1. \A m : m.tokens = <<>> => TokensOf(m) = {}
  <2> SUFFICES ASSUME NEW m, m.tokens = <<>> PROVE TokensOf(m) = {}
    OBVIOUS
  <2>1. DOMAIN m.tokens = 1 .. 0
    OBVIOUS
  <2> QED BY <2>1 DEF TokensOf
<1> QED BY <1>1, NoRequestIs DEF LoggedIn

\* Nothing of a login depends on the other slots of the page that asks.
LEMMA LoginBrowse ==
    ASSUME LoginInv, NEW s \in Slots, NEW p \in PageIds, Browse(s, p)
    PROVE  LoginInv'
<1>1. Shape /\ SessionInv /\ KnownInv /\ ForceInv /\ LastingInv /\ CookiesAreWhole
  BY DEF LoginInv, KnownInv
<1>2. PICK kind \in Kinds, k \in Settings, form \in Forms : wire'[s] = Request(p, kind, k, form)
  BY <1>1, BrowseAsks
<1>3. wire'[s].stage = "sent" /\ wire'[s].tokens = TokensSent(p) /\ wire'[s].due = entered[Secure(p)].token
  BY <1>2, RequestIs
<1>4. /\ \A r \in Slots \ {s} : wire'[r] = wire[r] \/ wire'[r] = NoRequest
      /\ UNCHANGED <<now, sessions, issued, revoked, authCookies, entered>>
  BY <1>1, BrowseAsks DEF sessionVars
<1>5. \A t \in TokensOf(wire'[s]) : t \in Tokens /\ \E c \in CookieNames : t = authCookies[c].token
  BY <1>1, <1>3, TokensSentAre DEF TokensOf, CookiesAreWhole
<1>6. TokensOf(wire'[s]) \subseteq DOMAIN issued
  BY <1>1, <1>5, Constants DEF KnownInv
<1>7. Shape' /\ SessionInv'
  BY <1>1, <1>4, ShapeBrowse DEF SessionInv
<1>8. KnownInv'
  <2>1. \A r \in Slots : TokensOf(wire'[r]) \subseteq DOMAIN issued
    BY <1>1, <1>4, <1>6, NothingSent DEF KnownInv
  <2>2. \A r \in Slots : LoggedIn(wire'[r]) => wire'[r].token \in DOMAIN issued
    BY <1>1, <1>3, <1>4, NothingSent DEF KnownInv, LoggedIn
  <2>3. \A r \in Slots : wire'[r].stage = "admitted" => TokensOf(wire'[r]) # {}
    BY <1>1, <1>3, <1>4, NoRequestIs DEF KnownInv
  <2> QED BY <1>1, <1>4, <2>1, <2>2, <2>3 DEF KnownInv, CookiesAreWhole
<1>9. wire'[s].due # Never => wire'[s].due \in TokensOf(wire'[s])
  <2> SUFFICES ASSUME entered[Secure(p)].token # Never
               PROVE  \E i \in DOMAIN TokensSent(p) : TokensSent(p)[i] = entered[Secure(p)].token
    BY <1>3 DEF TokensOf
  <2>1. \E c \in CookieNames : authCookies[c] = entered[Secure(p)] /\ (c = "cronn-auth" \/ Secure(p))
    <3>1. CASE Secure(p)
      <4>1. Secure(p) = TRUE
        BY <3>1 DEF Secure
      <4> QED BY <1>1, <3>1, <4>1 DEF ForceInv
    <3>2. CASE ~Secure(p)
      <4>1. Secure(p) = FALSE
        BY <3>2 DEF Secure
      <4> QED BY <1>1, <4>1 DEF ForceInv, CookieNames
    <3> QED BY <3>1, <3>2
  <2>2. PICK c \in CookieNames : authCookies[c] = entered[Secure(p)] /\ (c = "cronn-auth" \/ Secure(p))
    BY <2>1
  <2>3. authCookies[c] # NoCookie
    BY <2>2 DEF NoCookie
  <2> QED BY <1>1, <2>2, <2>3, TokensSentAre DEF CookiesAreWhole
<1>10. ForceInv'
  <2>1. \A r \in Slots : wire'[r].stage = "sent" /\ wire'[r].due # Never => wire'[r].due \in TokensOf(wire'[r])
    BY <1>1, <1>4, <1>9, NoRequestIs DEF ForceInv
  <2> QED BY <1>1, <1>4, <2>1 DEF ForceInv
<1>11. LastingInv'
  <2>1. \A t : Lasts(t) => Lasts(t)'
    BY <1>4 DEF Lasts
  <2>2. ASSUME NEW r \in Slots, LoggedIn(wire'[r])
        PROVE  r # s /\ wire'[r] = wire[r]
    BY <1>3, <1>4, <2>2, NothingSent DEF LoggedIn
  <2>3. ASSUME NEW r \in Slots, LoggedIn(wire'[r]), NEW q \in Slots
        PROVE  wire'[r].token \notin TokensOf(wire'[q])
    BY <1>1, <1>4, <1>5, <2>2, <2>3, NothingSent DEF LastingInv, ForceLasts, AnswerLasts
  <2> QED BY <1>1, <1>4, <2>1, <2>2, <2>3 DEF LastingInv, ForceLasts, AnswerLasts
<1> QED BY <1>7, <1>8, <1>10, <1>11 DEF LoginInv

\* The server's steps but logins and logouts: sessions that are over go.
LEMMA LoginChecked ==
    ASSUME LoginInv, NEW s \in Slots, Respond(s), ~LoggedIn(wire'[s]), SessionInv', UNCHANGED <<issued, entered>>,
           \A t : Lasts(t) => Lasts(t)', Shape'
    PROVE  LoginInv'
<1>1. Shape /\ SessionInv /\ KnownInv /\ ForceInv /\ LastingInv
  BY DEF LoginInv
<1>2. /\ wire'[s].tokens = <<>> /\ wire'[s].due = Never /\ \A r \in Slots \ {s} : wire'[r] = wire[r]
      /\ wire'[s].stage # "admitted" /\ UNCHANGED <<now, authCookies>>
  BY <1>1, HandleAnswers
<1>3. TokensOf(wire'[s]) = {}
  BY <1>2, NothingSent
<1>4. KnownInv'
  BY <1>1, <1>2, <1>3 DEF KnownInv, CookiesAreWhole
<1>5. ForceInv'
  BY <1>1, <1>2 DEF ForceInv
<1>6. LastingInv'
  BY <1>1, <1>2, <1>3 DEF LastingInv, ForceLasts, AnswerLasts
<1> QED BY <1>4, <1>5, <1>6 DEF LoginInv

\* authMiddleware lets a request pass: sessions that are over go, and the
\* request keeps its tokens.
LEMMA LoginAdmitted ==
    ASSUME LoginInv, NEW s \in Slots, Admit(s)
    PROVE  LoginInv'
<1>1. Shape /\ SessionInv /\ KnownInv /\ ForceInv /\ LastingInv
  BY DEF LoginInv
<1> DEFINE sent == wire[s].tokens
<1>2. /\ wire'[s].stage = "admitted" /\ wire'[s].tokens = sent /\ wire'[s].due = Never
      /\ wire' \in [Slots -> Requests] /\ Proper(wire'[s]) /\ \A r \in Slots \ {s} : wire'[r] = wire[r]
      /\ Allowed(sent) /\ ValidateSessions(sent)
      /\ UNCHANGED <<now, cache, modeCookies, pages, authCookies, entered>>
  BY <1>1, AdmitIs
<1>3. sent \in Seq(Tokens)
  BY <1>1 DEF Shape, Requests
<1>4. SessionInv' /\ UNCHANGED issued /\ \A t : Lasts(t) => Lasts(t)'
  BY <1>1, <1>2, <1>3, ValidateKeeps
<1>5. TokensOf(wire'[s]) = TokensOf(wire[s]) /\ ~LoggedIn(wire'[s]) /\ TokensOf(wire'[s]) # {}
  BY <1>2 DEF TokensOf, LoggedIn, Allowed
<1>6. Shape'
  BY <1>1, <1>2 DEF Shape
<1>7. KnownInv'
  BY <1>1, <1>2, <1>4, <1>5 DEF KnownInv, CookiesAreWhole
<1>8. ForceInv'
  BY <1>1, <1>2 DEF ForceInv
<1>9. LastingInv'
  BY <1>1, <1>2, <1>4, <1>5 DEF LastingInv, ForceLasts, AnswerLasts
<1> QED BY <1>4, <1>6, <1>7, <1>8, <1>9 DEF LoginInv

\* A login draws a new token.
LEMMA LoginDrawn ==
    ASSUME LoginInv, NEW s \in Slots, NEW t \in Tokens, HandleLogin(s, t), Shape'
    PROVE  LoginInv'
<1>1. Shape /\ SessionInv /\ KnownInv /\ ForceInv /\ LastingInv
  BY DEF LoginInv
<1>2. CreateSession(t) /\ entered' = entered /\ Respond(s)
  BY DEF HandleLogin, browserVars, Respond
<1>3. /\ wire'[s].tokens = <<>> /\ wire'[s].due = Never /\ \A r \in Slots \ {s} : wire'[r] = wire[r]
      /\ wire'[s].stage # "admitted" /\ UNCHANGED <<now, authCookies>>
  BY <1>1, <1>2, HandleAnswers
<1>4. TokensOf(wire'[s]) = {}
  BY <1>3, NothingSent
<1>5. /\ SessionInv' /\ t \notin DOMAIN issued /\ DOMAIN issued' = DOMAIN issued \cup {t}
      /\ Lasts(t)' /\ \A u : Lasts(u) => Lasts(u)'
  BY <1>1, <1>2, <1>3, CreateKeeps
<1>6. wire'[s].token = t
  <2> DEFINE n == [wire[s] EXCEPT !.stage = "served", !.token = t]
  <2>1. n \in Requests /\ n.token = t
    BY <1>1 DEF Shape, Requests, Stages
  <2>2. Answer(s, n) /\ wire \in [Slots -> Requests]
    BY <1>1 DEF HandleLogin, Shape
  <2> HIDE DEF n
  <2> QED BY <2>1, <2>2, AnswerIs
<1>7. KnownInv'
  BY <1>1, <1>3, <1>4, <1>5, <1>6 DEF KnownInv, CookiesAreWhole
<1>8. ForceInv'
  BY <1>1, <1>2, <1>3 DEF ForceInv
<1>9. t # Never
  BY Constants
<1>10. LastingInv'
  <2>1. \A b \in BOOLEAN : ForceLasts(b)'
    BY <1>1, <1>2, <1>5 DEF LastingInv, ForceLasts
  <2>2. AnswerLasts(s)'
    BY <1>1, <1>3, <1>4, <1>5, <1>6, <1>9 DEF KnownInv, AnswerLasts
  <2>3. ASSUME NEW r \in Slots \ {s} PROVE AnswerLasts(r)'
    <3>1. AnswerLasts(r) /\ wire'[r] = wire[r]
      BY <1>1, <1>3 DEF LastingInv
    <3>2. LoggedIn(wire[r]) => wire[r].token # t
      BY <1>1, <1>5 DEF KnownInv
    <3> QED BY <1>3, <1>4, <1>5, <1>6, <3>1, <3>2 DEF AnswerLasts
  <2> QED BY <2>1, <2>2, <2>3 DEF LastingInv
<1> QED BY <1>5, <1>7, <1>8, <1>10 DEF LoginInv

\* A logout takes the logins of the browser out of force.
LEMMA LoginEnded ==
    ASSUME LoginInv, NEW s \in Slots, HandleLogout(s), Shape'
    PROVE  LoginInv'
<1>1. Shape /\ SessionInv /\ KnownInv /\ ForceInv /\ LastingInv
  BY DEF LoginInv
<1> DEFINE sent == wire[s].tokens
<1>2. /\ wire[s].kind = "logout" /\ LogoutSession(sent) /\ entered' = NoLogins
      /\ wire[s].stage = "admitted" /\ Respond(s)
  BY DEF HandleLogout, Admitted, Respond
<1>3. sent \in Seq(Tokens)
  BY <1>1 DEF Shape, Requests
<1>4. /\ wire'[s].tokens = <<>> /\ wire'[s].due = Never /\ \A r \in Slots \ {s} : wire'[r] = wire[r]
      /\ wire'[s].kind = "logout" /\ wire'[s].stage # "admitted" /\ UNCHANGED <<now, authCookies>>
  BY <1>1, <1>2, HandleAnswers
<1>5. TokensOf(wire'[s]) = {} /\ ~LoggedIn(wire'[s])
  BY <1>4, NothingSent DEF LoggedIn
<1>6. sent[1] \in TokensOf(wire[s])
  <2>1. \E i \in DOMAIN sent : TRUE
    BY <1>1, <1>2 DEF KnownInv, TokensOf
  <2>2. DOMAIN sent = 1 .. Len(sent) /\ Len(sent) \in Nat
    BY <1>3, LenProperties
  <2> DEFINE length == Len(sent)
  <2> HIDE DEF length
  <2>3. DOMAIN sent = 1 .. length /\ length \in Nat
    BY <2>2 DEF length
  <2>4. 1 \in DOMAIN sent
    BY <2>1, <2>3
  <2> QED BY <2>4 DEF TokensOf
<1>7. SessionInv' /\ UNCHANGED issued /\ \A u : Lasts(u) /\ u # sent[1] => Lasts(u)'
  <2>1. sent[1] \in DOMAIN issued /\ \A i \in DOMAIN sent : sent[i] \in DOMAIN issued
    BY <1>1, <1>6 DEF KnownInv, TokensOf
  <2> HIDE DEF sent
  <2> QED BY <1>1, <1>2, <1>3, <1>4, <2>1, LogoutKeeps
<1>8. \A b \in BOOLEAN : entered'[b].token = Never
  BY <1>2 DEF NoLogins, NoCookie
<1>9. KnownInv'
  BY <1>1, <1>4, <1>5, <1>7 DEF KnownInv, CookiesAreWhole
<1>10. ForceInv'
  <2>1. entered'[FALSE].token = Never /\ entered'[TRUE].token = Never
    BY <1>8
  <2> QED BY <1>1, <1>4, <2>1 DEF ForceInv
<1>11. LastingInv'
  <2> QED BY <1>1, <1>4, <1>5, <1>6, <1>7, <1>8 DEF LastingInv, ForceLasts, AnswerLasts
<1> QED BY <1>7, <1>9, <1>10, <1>11 DEF LoginInv

\* The server's steps keep the invariant of the logins.
LEMMA LoginHandle ==
    ASSUME LoginInv, NEW s \in Slots, Handle(s)
    PROVE  LoginInv'
<1>1. Shape /\ SessionInv
  BY DEF LoginInv
<1>2. wire[s].tokens \in Seq(Tokens) /\ Proper(wire[s])
  BY <1>1 DEF Shape, Requests
<1>3. ASSUME Respond(s) PROVE Shape' /\ wire'[s].kind = wire[s].kind /\ now' = now
  <2>1. NoLogins \in [BOOLEAN -> Cookies]
    BY Constants DEF NoLogins
  <2> QED BY <1>1, <1>3, <2>1, HandleAnswers DEF Shape
<1>4. CASE Refuse(s)
  <2>1. ValidateSessions(wire[s].tokens) /\ entered' = entered /\ wire[s].kind # "login" /\ Respond(s)
    BY <1>4 DEF Refuse, Respond, browserVars
  <2>2. SessionInv' /\ UNCHANGED issued /\ \A u : Lasts(u) => Lasts(u)'
    BY <1>1, <1>2, <1>3, <2>1, ValidateKeeps
  <2> QED BY <1>3, <2>1, <2>2, LoginChecked DEF LoggedIn
<1>5. CASE HandleJobs(s) \/ HandleNeighbors(s) \/ ReadSource(s) \/ EndFetch(s) \/ FetchFails(s)
  <2>1. UNCHANGED <<sessions, issued, revoked, entered>> /\ Respond(s)
    BY <1>5 DEF HandleJobs, HandleNeighbors, ReadSource, EndFetch, FetchFails, browserVars, sessionVars, Respond
  <2>2. wire[s].kind # "login"
    BY <1>2, <1>5 DEF HandleJobs, HandleNeighbors, Admitted, ReadSource, EndFetch, FetchFails, Proper
  <2>3. SessionInv' /\ \A u : Lasts(u) => Lasts(u)'
    BY <1>1, <1>3, <2>1 DEF SessionInv, Lasts
  <2> QED BY <1>3, <2>1, <2>2, <2>3, LoginChecked DEF LoggedIn
<1>6. ASSUME NEW t \in Tokens, HandleLogin(s, t) PROVE LoginInv'
  BY <1>3, <1>6, LoginDrawn DEF Respond
<1>7. CASE HandleLogout(s)
  BY <1>3, <1>7, LoginEnded DEF Respond
<1> QED BY <1>4, <1>5, <1>6, <1>7, LoginAdmitted DEF Handle, Respond

\* The browser's steps keep the invariant of the logins when the cookies it
\* has are old ones, or the one of a login that lasts.
LEMMA LoginReceive ==
    ASSUME LoginInv, NEW s \in Slots, Receive(s)
    PROVE  LoginInv'
<1>1. Shape /\ SessionInv /\ KnownInv /\ ForceInv /\ LastingInv
  BY DEF LoginInv
<1> DEFINE p == wire[s].page
           u == wire[s].token
<1>2. /\ Done(s) \/ DoneAll(p)
      /\ p \in PageIds /\ UNCHANGED <<now, sessions, issued, revoked, cache>>
      /\ pages' \in [PageIds -> PageStates]
      /\ \A q \in PageIds : \A k \in Settings : pages'[q].own[k] \subseteq Modes[k]
      /\ modeCookies' \in Forms /\ authCookies' \in [CookieNames -> Cookies] /\ entered' \in [BOOLEAN -> Cookies]
  BY <1>1, ReceiveShows DEF sessionVars
<1>3. /\ wire'[s] = NoRequest /\ \A r \in Slots : wire'[r] = wire[r] \/ wire'[r] = NoRequest
      /\ wire' = [r \in Slots |-> wire'[r]]
  BY <1>1, <1>2, Consumed
<1>4. Shape'
  <2>1. \A r \in Slots : wire'[r] \in Requests /\ Proper(wire'[r])
    <3>1. NoRequest \in Requests /\ Proper(NoRequest)
      BY NoRequestIs DEF Proper
    <3> QED BY <1>1, <1>3, <3>1 DEF Shape
  <2>2. wire' \in [Slots -> Requests]
    BY <1>3, <2>1
  <2> QED BY <1>1, <1>2, <2>1, <2>2 DEF Shape
<1>5. SessionInv' /\ \A t : Lasts(t) => Lasts(t)'
  BY <1>1, <1>2 DEF SessionInv, Lasts
<1>6. /\ \A r \in Slots : TokensOf(wire'[r]) \subseteq TokensOf(wire[r])
      /\ \A r \in Slots : LoggedIn(wire'[r]) => r # s /\ wire'[r] = wire[r]
      /\ \A r \in Slots : wire'[r].stage = "sent" /\ wire'[r].due # Never => wire'[r] = wire[r]
      /\ \A r \in Slots : wire'[r].stage = "admitted" => wire'[r] = wire[r]
  BY <1>3, NothingSent, NoRequestIs
<1>7. ASSUME CookiesAreWhole', \A c \in CookieNames : authCookies'[c].token \in DOMAIN issued \cup {Never}
      PROVE  KnownInv'
  BY <1>1, <1>2, <1>6, <1>7 DEF KnownInv
<1>8. ASSUME entered'[FALSE].token # Never => authCookies'["cronn-auth"] = entered'[FALSE],
             entered'[TRUE].token # Never => \E c \in CookieNames : authCookies'[c] = entered'[TRUE]
      PROVE  ForceInv'
  BY <1>1, <1>6, <1>8 DEF ForceInv
<1>9. ASSUME \A b \in BOOLEAN : entered'[b] = entered[b] \/ entered'[b].token = Never
                                \/ (LoggedIn(wire[s]) /\ entered'[b].token = u),
             \A c \in CookieNames : authCookies'[c] = authCookies[c] \/ authCookies'[c].token = Never
                                    \/ (LoggedIn(wire[s]) /\ authCookies'[c].token = u)
      PROVE  LastingInv'
  <2>1. LoggedIn(wire[s]) => Lasts(u)
    BY <1>1 DEF LastingInv, AnswerLasts
  <2>2. \A b \in BOOLEAN : ForceLasts(b)'
    BY <1>1, <1>5, <1>9, <2>1 DEF LastingInv, ForceLasts
  <2>3. ASSUME NEW r \in Slots, LoggedIn(wire'[r]) PROVE AnswerLasts(r)'
    <3>1. r # s /\ wire'[r] = wire[r] /\ AnswerLasts(r) /\ AnswerLasts(s)
      BY <1>1, <1>6, <2>3 DEF LastingInv
    <3>2. LoggedIn(wire[s]) => wire[r].token # u
      BY <2>3, <3>1 DEF AnswerLasts
    <3>3. wire[r].token # Never
      BY <1>1, <2>3, <3>1, Constants DEF KnownInv, SessionInv
    <3>4. \A c \in CookieNames : authCookies'[c].token # wire[r].token
      BY <1>9, <2>3, <3>1, <3>2, <3>3 DEF AnswerLasts
    <3> QED BY <1>5, <1>6, <2>3, <3>1, <3>4 DEF AnswerLasts
  <2> QED BY <2>2, <2>3 DEF LastingInv, AnswerLasts
<1>10. CASE ReceiveRefusal(s) \/ ReceiveJobs(s) \/ ReceiveNeighbors(s)
  <2>1. UNCHANGED <<authCookies, entered>>
    BY <1>10 DEF ReceiveRefusal, ReceiveJobs, ReceiveNeighbors, browserVars
  <2>2. KnownInv'
    BY <1>1, <1>7, <2>1 DEF KnownInv, CookiesAreWhole
  <2>3. ForceInv'
    BY <1>1, <1>8, <2>1 DEF ForceInv
  <2>4. LastingInv'
    <3>1. \A b \in BOOLEAN : entered'[b] = entered[b] \/ entered'[b].token = Never
                            \/ (LoggedIn(wire[s]) /\ entered'[b].token = u)
      BY <2>1
    <3>2. \A c \in CookieNames : authCookies'[c] = authCookies[c] \/ authCookies'[c].token = Never
                                \/ (LoggedIn(wire[s]) /\ authCookies'[c].token = u)
      BY <2>1
    <3> QED BY <1>9, <3>1, <3>2
  <2> QED BY <1>4, <1>5, <2>2, <2>3, <2>4 DEF LoginInv
<1>11. CASE ReceiveLogin(s)
  <2> DEFINE new == Cookie(u)
  <2>1. LoggedIn(wire[s]) /\ new.token = u /\ u \in DOMAIN issued /\ u # Never
    <3>1. LoggedIn(wire[s])
      BY <1>11 DEF ReceiveLogin, LoggedIn
    <3>2. u \in DOMAIN issued
      BY <1>1, <3>1 DEF KnownInv
    <3> QED BY <1>1, <3>1, <3>2, Constants DEF SessionInv, Cookie
  <2>2. /\ authCookies' = [authCookies EXCEPT ![CookieName(p)] = new]
        /\ entered' = [secure \in BOOLEAN |-> IF Secure(p) => secure THEN new ELSE entered[secure]]
    BY <1>11 DEF ReceiveLogin
  <2> HIDE DEF new
  <2>3. CookieName(p) \in CookieNames /\ authCookies \in [CookieNames -> Cookies]
    BY <1>1 DEF CookieName, CookieNames, Shape
  <2>4. \A c \in CookieNames : authCookies'[c] = IF c = CookieName(p) THEN new ELSE authCookies[c]
    BY <2>2, <2>3
  <2>5. entered'[TRUE] = new /\ entered'[FALSE] = IF Secure(p) THEN entered[FALSE] ELSE new
    BY <2>2
  <2>6. KnownInv'
    BY <1>1, <1>7, <2>1, <2>4 DEF KnownInv, CookiesAreWhole
  <2>7. ForceInv'
    <3>1. "cronn-auth" \in CookieNames /\ (CookieName(p) = "cronn-auth" <=> ~Secure(p))
      BY DEF CookieNames, CookieName
    <3> QED BY <1>1, <1>8, <2>3, <2>4, <2>5, <3>1 DEF ForceInv
  <2>8. LastingInv'
    <3>1. \A b \in BOOLEAN : entered'[b] = entered[b] \/ entered'[b].token = Never
                            \/ (LoggedIn(wire[s]) /\ entered'[b].token = u)
      BY <2>1, <2>4, <2>5
    <3>2. \A c \in CookieNames : authCookies'[c] = authCookies[c] \/ authCookies'[c].token = Never
                                \/ (LoggedIn(wire[s]) /\ authCookies'[c].token = u)
      BY <2>1, <2>4, <2>5
    <3> QED BY <1>9, <3>1, <3>2
  <2> QED BY <1>4, <1>5, <2>6, <2>7, <2>8 DEF LoginInv
<1>12. CASE ReceiveLogout(s)
  <2>1. /\ \A c \in CookieNames : authCookies'[c] = authCookies[c] \/ authCookies'[c] = NoCookie
        /\ \A b \in BOOLEAN : entered'[b].token = Never
    BY <1>12 DEF ReceiveLogout, NoLogins, NoCookie
  <2>2. NoCookie.token = Never
    BY DEF NoCookie
  <2>3. KnownInv'
    BY <1>1, <1>7, <2>1, <2>2 DEF KnownInv, CookiesAreWhole
  <2>4. ForceInv'
    BY <1>8, <2>1
  <2>5. LastingInv'
    <3>1. \A b \in BOOLEAN : entered'[b] = entered[b] \/ entered'[b].token = Never
                            \/ (LoggedIn(wire[s]) /\ entered'[b].token = u)
      BY <2>1, <2>2
    <3>2. \A c \in CookieNames : authCookies'[c] = authCookies[c] \/ authCookies'[c].token = Never
                                \/ (LoggedIn(wire[s]) /\ authCookies'[c].token = u)
      BY <2>1, <2>2
    <3> QED BY <1>9, <3>1, <3>2
  <2> QED BY <1>4, <1>5, <2>3, <2>4, <2>5 DEF LoginInv
<1> QED BY <1>10, <1>11, <1>12 DEF Receive

\* Time ends sessions on the server and cookies in the browser.
LEMMA LoginTick == ASSUME LoginInv, Tick PROVE LoginInv'
<1>1. Shape /\ SessionInv /\ KnownInv /\ ForceInv /\ LastingInv
  BY DEF LoginInv
<1>2. /\ now' = now + 1 /\ now < MaxTime
      /\ \A c \in CookieNames : authCookies'[c] = IF now' < authCookies[c].until THEN authCookies[c] ELSE NoCookie
      /\ \A b \in BOOLEAN : entered'[b] = IF now' < entered[b].until THEN entered[b] ELSE NoCookie
      /\ authCookies' \in [CookieNames -> Cookies] /\ entered' \in [BOOLEAN -> Cookies]
      /\ UNCHANGED <<sessions, issued, revoked, cache, modeCookies, pages, wire>>
  BY <1>1, TickForgets
<1>3. now \in Nat /\ MaxTime \in Nat /\ LoginTTL \in Nat
  BY <1>1, Constants DEF Shape
<1>4. Shape'
  BY <1>1, <1>2, <1>3 DEF Shape
<1>5. SessionInv'
  BY <1>1, <1>2, <1>3 DEF SessionInv
<1>6. \A t : Lasts(t) => Lasts(t)'
  BY <1>1, <1>2, <1>3 DEF Lasts, SessionInv
<1>7. NoCookie.token = Never
  BY DEF NoCookie
<1>8. KnownInv'
  BY <1>1, <1>2, <1>7 DEF KnownInv, CookiesAreWhole
<1>9. ForceInv'
  <2>1. "cronn-auth" \in CookieNames
    BY DEF CookieNames
  <2>2. entered'[FALSE].token # Never => entered'[FALSE] = entered[FALSE] /\ now' < entered[FALSE].until
    BY <1>2, <1>7
  <2>3. entered'[TRUE].token # Never => entered'[TRUE] = entered[TRUE] /\ now' < entered[TRUE].until
    BY <1>2, <1>7
  <2> QED BY <1>1, <1>2, <2>1, <2>2, <2>3 DEF ForceInv
<1>10. LastingInv'
  <2>1. \A b \in BOOLEAN : ForceLasts(b)'
    BY <1>1, <1>2, <1>6, <1>7 DEF LastingInv, ForceLasts
  <2>2. ASSUME NEW r \in Slots, LoggedIn(wire[r]) PROVE AnswerLasts(r)'
    <3>1. AnswerLasts(r) /\ wire[r].token # Never
      BY <1>1, <2>2, Constants DEF LastingInv, KnownInv, SessionInv
    <3> QED BY <1>2, <1>6, <1>7, <2>2, <3>1 DEF AnswerLasts
  <2> QED BY <1>2, <2>1, <2>2 DEF LastingInv, AnswerLasts
<1> QED BY <1>4, <1>5, <1>8, <1>9, <1>10 DEF LoginInv

\* Nobody is logged in at first.
LEMMA LoginInit == Init => LoginInv
<1> SUFFICES ASSUME Init PROVE LoginInv
  OBVIOUS
<1>1. /\ now = 0 /\ sessions = <<>> /\ issued = <<>> /\ revoked = {}
      /\ cache = [list |-> NoList, at |-> 0]
      /\ modeCookies = NoForm /\ pages = [p \in PageIds |-> Blank]
      /\ authCookies = [c \in CookieNames |-> NoCookie] /\ wire = [s \in Slots |-> NoRequest]
      /\ entered = [b \in BOOLEAN |-> NoCookie]
  BY DEF Init, InitSessions, InitNeighbors, InitPages, NoLogins
<1>2. DOMAIN issued = {} /\ DOMAIN sessions = {}
  BY <1>1
<1>3. Blank \in PageStates /\ \A k \in Settings : Blank.own[k] = {}
  <2>1. [k \in Settings |-> {}] \in [Settings -> SUBSET PageModes]
    OBVIOUS
  <2> QED BY <2>1, Constants DEF Blank, PageStates
<1>4. Shape
  <2>1. cache \in [list : Times, at : Nat]
    BY <1>1 DEF Times
  <2>2. wire \in [Slots -> Requests] /\ \A s \in Slots : Proper(wire[s])
    BY <1>1, NoRequestIs DEF Proper
  <2>3. authCookies \in [CookieNames -> Cookies] /\ entered \in [BOOLEAN -> Cookies]
    BY <1>1, Constants
  <2> QED BY <1>1, <1>3, <2>1, <2>2, <2>3, Constants DEF Shape
<1>5. SessionInv
  BY <1>1, <1>2, Constants DEF SessionInv
<1>6. /\ \A c \in CookieNames : authCookies[c].token = Never /\ authCookies[c] = NoCookie
      /\ \A b \in BOOLEAN : entered[b].token = Never
      /\ \A s \in Slots : wire[s].stage = "free" /\ TokensOf(wire[s]) = {} /\ ~LoggedIn(wire[s])
  BY <1>1, NothingSent, NoRequestIs DEF NoCookie
<1>7. KnownInv /\ ForceInv /\ LastingInv
  BY <1>6 DEF KnownInv, CookiesAreWhole, ForceInv, LastingInv, ForceLasts, AnswerLasts
<1> QED BY <1>4, <1>5, <1>7 DEF LoginInv

\* Every step keeps the invariant of the logins.
LEMMA LoginStep == ASSUME LoginInv, [Next]_vars PROVE LoginInv'
<1>1. CASE UNCHANGED vars
  BY <1>1 DEF LoginInv, Shape, SessionInv, KnownInv, CookiesAreWhole, ForceInv, LastingInv, ForceLasts, AnswerLasts,
         Lasts, vars, sessionVars, browserVars
<1>2. CASE Next
  BY <1>2, LoginTick, LoginHandle, LoginReceive, LoginBrowse DEF Next
<1> QED BY <1>1, <1>2

\* The state of the server, of the browser and of what is in flight between
\* them is always what LoginInv says.
THEOREM LoginsCorrect == Spec => []LoginInv
BY LoginInit, LoginStep, PTL DEF Spec

-----------------------------------------------------------------------------
(* Who is served and who is refused.                                         *)

\* What becomes of a request that is waiting: only the server answers it.
LEMMA Answered ==
    ASSUME Shape, CookiesAreWhole, Next, NEW s \in Slots, wire[s].stage = "sent",
           wire'[s].stage \notin {"free", "sent"}
    PROVE  Handle(s)
<1>1. CASE Tick
  BY <1>1 DEF Tick
<1>2. ASSUME NEW r \in Slots, Handle(r) PROVE Handle(s)
  <2>1. r # s => wire'[s] = wire[s]
    BY <1>2, HandleAnswers, AdmitIs DEF Handle
  <2> QED BY <1>2, <2>1
<1>3. ASSUME NEW r \in Slots, Receive(r) PROVE FALSE
  <2>1. LET p == wire[r].page IN p \in PageIds /\ (Done(r) \/ DoneAll(p))
    BY <1>3, ReceiveShows
  <2>2. wire'[s] = wire[s] \/ wire'[s] = NoRequest
    BY <2>1, Consumed
  <2> QED BY <2>2, NoRequestIs
<1>4. ASSUME NEW r \in Slots, NEW p \in PageIds, Browse(r, p) PROVE FALSE
  <2>1. wire[r].stage = "free" /\ \A q \in Slots \ {r} : wire'[q] = wire[q] \/ wire'[q] = NoRequest
    BY <1>4, BrowseAsks
  <2> QED BY <2>1, NoRequestIs
<1> QED BY <1>1, <1>2, <1>3, <1>4 DEF Next

\* A token that is valid may open the dashboard.
LEMMA ValidIsJustified == ASSUME SessionInv, NEW t, Valid(t) PROVE Justified(t)
<1>1. t \in DOMAIN issued /\ t \notin revoked /\ sessions[t] = issued[t] /\ ~(now - issued[t] > LoginTTL)
  BY DEF SessionInv, Valid, Expired
<1>2. now \in 0 .. MaxTime /\ issued[t] \in 0 .. now /\ LoginTTL \in Nat /\ MaxTime \in Nat
  BY <1>1, Constants DEF SessionInv
<1>3. now - issued[t] \in Int
  BY <1>2
<1>4. now - issued[t] <= LoginTTL
  BY <1>1, <1>2, <1>3
<1> QED BY <1>1, <1>4 DEF Justified

\* authMiddleware: no handler is called for a browser unless one of the tokens
\* it sent was given to a user who knew the password, at most the configured
\* time ago, and has not been invalidated by a logout.
THEOREM ServedJustified == Spec => ServedIsJustified
<1>1. LoginInv /\ [Next]_vars =>
        [\A s \in Slots :
           wire[s].stage = "sent" /\ wire'[s].stage = "admitted"
              => \E i \in DOMAIN wire[s].tokens : Justified(wire[s].tokens[i])]_vars
  <2> SUFFICES ASSUME LoginInv, Next, NEW s \in Slots, wire[s].stage = "sent", wire'[s].stage = "admitted"
               PROVE  \E i \in DOMAIN wire[s].tokens : Justified(wire[s].tokens[i])
    OBVIOUS
  <2>1. Handle(s)
    BY Answered DEF LoginInv, KnownInv
  <2>2. Shape /\ SessionInv
    BY DEF LoginInv
  <2>3. ~Respond(s)
    BY <2>2, HandleAnswers
  <2>4. Allowed(wire[s].tokens)
    BY <2>1, <2>2, <2>3, AdmitIs DEF Handle
  <2> QED BY <2>2, <2>4, ValidIsJustified DEF Allowed
<1> QED BY <1>1, LoginsCorrect, PTL DEF Spec, ServedIsJustified

\* A user who logged in stays logged in until a logout or the end of the last
\* session, though an older one of the browser ends before, logins clean up
\* the map and answers are late.
THEOREM LoggedInStays == Spec => StaysLoggedIn
<1>1. LoginInv /\ [Next]_vars =>
        [\A s \in Slots :
           wire[s].stage = "sent" /\ wire'[s].stage = "refused" /\ wire[s].due # Never
              => \/ now - issued[wire[s].due] > LoginTTL
                 \/ entered[Secure(wire[s].page)].token # wire[s].due]_vars
  <2> SUFFICES ASSUME LoginInv, Next, NEW s \in Slots,
                      wire[s].stage = "sent", wire'[s].stage = "refused", wire[s].due # Never,
                      entered[Secure(wire[s].page)].token = wire[s].due
               PROVE  now - issued[wire[s].due] > LoginTTL
    OBVIOUS
  <2>1. Shape /\ SessionInv /\ ForceInv /\ LastingInv
    BY DEF LoginInv
  <2>2. Handle(s)
    BY Answered DEF LoginInv, KnownInv
  <2>3. \A n \in Requests : n.stage # "refused" => ~Answer(s, n)
    <3> SUFFICES ASSUME NEW n \in Requests, n.stage # "refused", Answer(s, n) PROVE FALSE
      OBVIOUS
    <3>1. wire \in [Slots -> Requests]
      BY <2>1 DEF Shape
    <3> QED BY <3>1, AnswerIs
  <2>4. wire[s] \in Requests /\ cache.list \in Times /\ now \in Nat
    BY <2>1 DEF Shape
  <2>5. ASSUME NEW t \in Tokens, HandleLogin(s, t) PROVE FALSE
    <3> DEFINE n == [wire[s] EXCEPT !.stage = "served", !.token = t]
    <3>1. n \in Requests /\ n.stage = "served" /\ Answer(s, n)
      BY <2>4, <2>5 DEF Requests, Stages, HandleLogin
    <3> HIDE DEF n
    <3> QED BY <2>3, <3>1
  <2>6. ~Allowed(wire[s].tokens)
    <3>1. ~Admit(s)
      BY <2>1, AdmitIs
    <3> QED BY <2>2, <2>5, <3>1 DEF Handle, Respond, Refuse, HandleJobs, HandleLogout, HandleNeighbors,
               Admitted, ReadSource, EndFetch, FetchFails
  <2>7. PICK i \in DOMAIN wire[s].tokens : wire[s].tokens[i] = wire[s].due
    BY <2>1 DEF ForceInv, TokensOf
  <2>8. ~Valid(wire[s].due)
    BY <2>6, <2>7 DEF Allowed
  <2>9. Lasts(wire[s].due)
    <3>1. Secure(wire[s].page) = TRUE \/ Secure(wire[s].page) = FALSE
      BY DEF Secure
    <3> QED BY <2>1, <3>1 DEF LastingInv, ForceLasts
  <2> QED BY <2>1, <2>8, <2>9 DEF Lasts, Valid, Expired, SessionInv
<1> QED BY <1>1, LoginsCorrect, PTL DEF Spec, StaysLoggedIn

-----------------------------------------------------------------------------
(* What a page shows.                                                        *)

\* What is on its way to a page that shows the dashboard has modes the page was
\* loaded with or its user chose, and so have its controls and its table.
PageInv ==
    /\ NoLeak
    /\ \A s \in Slots : wire[s].stage \in {"sent", "admitted", "served"} /\ wire[s].kind \in {"poll", "choose"} =>
         LET page == pages[wire[s].page]
         IN  /\ page.at = "dashboard" /\ wire[s].query \in Queries
             /\ \A k \in Settings : wire[s].query[k] \in page.own[k]

\* A page asks with its own modes.
LEMMA PageBrowse ==
    ASSUME Shape, CookiesAreWhole, PageInv, NEW s \in Slots, NEW p \in PageIds, Browse(s, p)
    PROVE  PageInv'
<1>1. PICK kind \in Kinds, k \in Settings, form \in Forms :
        /\ wire'[s] = Request(p, kind, k, form)
        /\ kind \in {"poll", "choose"} =>
             /\ form \in Queries /\ pages[p].at = "dashboard"
             /\ \/ form = pages[p].controls
                \/ \E mode \in Modes[k] : form = Choice(p, k, mode) /\ mode \in pages'[p].own[k]
  BY BrowseAsks
<1>2. wire'[s].page = p /\ wire'[s].kind = kind /\ wire'[s].query = form /\ wire'[s].stage = "sent"
  BY <1>1, RequestIs
<1>3. /\ \A r \in Slots \ {s} : wire'[r] = wire[r] \/ wire'[r] = NoRequest
      /\ \A q \in PageIds : pages'[q].at = pages[q].at /\ pages'[q].controls = pages[q].controls
                            /\ pages'[q].table = pages[q].table
                            /\ \A h \in Settings : pages[q].own[h] \subseteq pages'[q].own[h]
  BY BrowseAsks
<1>4. NoLeak'
  BY <1>3 DEF PageInv, NoLeak
<1>5. ASSUME kind \in {"poll", "choose"}
      PROVE  pages'[p].at = "dashboard" /\ form \in Queries /\ \A h \in Settings : form[h] \in pages'[p].own[h]
  <2>1. form \in Queries /\ pages'[p].at = "dashboard" /\ pages[p].at = "dashboard"
    BY <1>1, <1>3, <1>5
  <2>2. \A h \in Settings : pages[p].controls[h] \in pages'[p].own[h]
    BY <1>3, <2>1 DEF PageInv, NoLeak
  <2>3. CASE form = pages[p].controls
    BY <2>1, <2>2, <2>3
  <2>4. ASSUME NEW mode \in Modes[k], form = Choice(p, k, mode), mode \in pages'[p].own[k]
        PROVE  \A h \in Settings : form[h] \in pages'[p].own[h]
    <3>1. pages[p].controls \in Queries
      BY DEF Shape, PageStates
    <3>2. \A h \in Settings : form[h] = IF h = k THEN mode ELSE pages[p].controls[h]
      BY <2>4, <3>1 DEF Choice, Queries
    <3> QED BY <2>2, <2>4, <3>2
  <2> QED BY <1>1, <1>5, <2>1, <2>3, <2>4
<1>6. ASSUME NEW r \in Slots, wire'[r].stage \in {"sent", "admitted", "served"}, wire'[r].kind \in {"poll", "choose"}
      PROVE  LET page == pages'[wire'[r].page]
             IN  /\ page.at = "dashboard" /\ wire'[r].query \in Queries
                 /\ \A h \in Settings : wire'[r].query[h] \in page.own[h]
  <2>1. CASE r = s
    BY <1>2, <1>5, <1>6, <2>1
  <2>2. CASE r # s
    <3>1. wire'[r] = wire[r]
      BY <1>3, <1>6, <2>2, NoRequestIs
    <3>2. wire[r].page \in PageIds
      BY DEF Shape, Requests
    <3> QED BY <1>3, <1>6, <3>1, <3>2 DEF PageInv
  <2> QED BY <2>1, <2>2
<1> QED BY <1>4, <1>6 DEF PageInv

\* A handler answers with what the page sent.
LEMMA PageHandle ==
    ASSUME Shape, PageInv, NEW s \in Slots, Handle(s)
    PROVE  PageInv'
<1>1. /\ wire[s].stage \in {"sent", "admitted", "fetching"}
      /\ wire'[s].page = wire[s].page /\ wire'[s].kind = wire[s].kind
      /\ \A r \in Slots \ {s} : wire'[r] = wire[r]
      /\ pages' = pages
  BY HandleAnswers, AdmitIs DEF Handle
<1>2. ASSUME wire'[s].stage \in {"sent", "admitted", "served"}, wire'[s].kind \in {"poll", "choose"}
      PROVE  wire[s].stage \in {"sent", "admitted"} /\ wire'[s].query = wire[s].query
  <2>1. CASE Admit(s)
    BY <2>1, AdmitIs
  <2>2. CASE Respond(s)
    <3>1. wire[s].stage = "admitted" /\ wire'[s].query = Query(wire[s].query, wire[s].cookies)
      BY <1>2, <2>2, HandleAnswers
    <3> QED BY <1>1, <1>2, <3>1, QueryIsForm DEF PageInv
  <2> QED BY <2>1, <2>2 DEF Handle
<1>3. ASSUME NEW r \in Slots, wire'[r].stage \in {"sent", "admitted", "served"}, wire'[r].kind \in {"poll", "choose"}
      PROVE  LET page == pages'[wire'[r].page]
             IN  /\ page.at = "dashboard" /\ wire'[r].query \in Queries
                 /\ \A h \in Settings : wire'[r].query[h] \in page.own[h]
  <2>1. CASE r = s
    BY <1>1, <1>2, <1>3, <2>1 DEF PageInv
  <2>2. CASE r # s
    BY <1>1, <1>3, <2>2 DEF PageInv
  <2> QED BY <2>1, <2>2
<1> QED BY <1>1, <1>3 DEF PageInv, NoLeak

\* A page takes an answer to what it asked itself, or begins anew.
LEMMA PageReceive ==
    ASSUME Shape, PageInv, NEW s \in Slots, Receive(s)
    PROVE  PageInv'
<1> DEFINE p == wire[s].page
           m == wire[s]
<1>1. /\ m.stage \in {"served", "refused"} /\ p \in PageIds
      /\ Done(s) \/ DoneAll(p)
      /\ \A q \in PageIds \ {p} : pages'[q] = pages[q]
      /\ \/ DoneAll(p)
         \/ pages'[p].at = pages[p].at /\ pages'[p].own = pages[p].own
      /\ \/ pages' = pages
         \/ pages'[p].at # "dashboard"
         \/ /\ m.stage = "served" /\ m.kind = "load"
            /\ \A k \in Settings : {pages'[p].controls[k], pages'[p].table[k]} \subseteq pages'[p].own[k]
         \/ /\ m.stage = "served" /\ m.kind \in {"poll", "choose"}
            /\ pages'[p].table = m.query
            /\ pages'[p].controls \in {pages[p].controls, m.query}
  BY ReceiveShows
<1>2. /\ wire'[s] = NoRequest /\ \A r \in Slots : wire'[r] = wire[r] \/ wire'[r] = NoRequest
      /\ DoneAll(p) => \A r \in Slots : wire[r].page = p => wire'[r] = NoRequest
  BY <1>1, Consumed
<1>3. NoLeak'
  <2> SUFFICES ASSUME NEW q \in PageIds, pages'[q].at = "dashboard", NEW k \in Settings
               PROVE  {pages'[q].controls[k], pages'[q].table[k]} \subseteq pages'[q].own[k]
    BY DEF NoLeak
  <2>1. CASE pages'[q] = pages[q]
    BY <2>1 DEF PageInv, NoLeak
  <2>2. CASE q = p /\ m.stage = "served" /\ m.kind = "load"
             /\ \A h \in Settings : {pages'[p].controls[h], pages'[p].table[h]} \subseteq pages'[p].own[h]
    BY <2>2
  <2>3. CASE /\ q = p /\ m.stage = "served" /\ m.kind \in {"poll", "choose"}
             /\ pages'[p].table = m.query /\ pages'[p].controls \in {pages[p].controls, m.query}
             /\ pages'[p].own = pages[p].own
    BY <2>3 DEF PageInv, NoLeak
  <2>4. m.kind \in {"poll", "choose"} /\ m.stage = "served" => ~DoneAll(p) \/ pages'[p].own = pages[p].own
    <3> SUFFICES ASSUME m.kind \in {"poll", "choose"}, m.stage = "served" PROVE pages'[p].own = pages[p].own
      OBVIOUS
    <3>1. ReceiveJobs(s)
      BY DEF Receive, ReceiveRefusal, ReceiveLogin, ReceiveLogout, ReceiveNeighbors
    <3>2. pages \in [PageIds -> PageStates]
      BY DEF Shape
    <3>3. CASE ShowTable(p, m.query)
      BY <1>1, <3>2, <3>3 DEF ShowTable, PageStates
    <3>4. CASE ShowChoice(p, m.setting, m.query)
      <4> DEFINE page == [pages[p] EXCEPT !.table = m.query, !.controls = m.query]
      <4>1. pages' = [pages EXCEPT ![p] = page] /\ page.own = pages[p].own
        <5>1. pages' = [pages EXCEPT ![p].table = m.query, ![p].controls = m.query]
          BY <3>4 DEF ShowChoice
        <5>2. p \in PageIds
          BY <1>1
        <5> HIDE DEF p, m
        <5>3. pages' = [pages EXCEPT ![p] = page]
          BY <3>2, <5>1, <5>2 DEF PageStates
        <5>4. page.own = pages[p].own
          BY <3>2, <5>2 DEF PageStates
        <5> QED BY <5>3, <5>4
      <4> HIDE DEF page
      <4> QED BY <1>1, <3>2, <4>1
    <3> QED BY <3>1, <3>3, <3>4 DEF ReceiveJobs
  <2> QED BY <1>1, <2>1, <2>2, <2>3, <2>4
<1>4. ASSUME NEW r \in Slots, wire'[r].stage \in {"sent", "admitted", "served"}, wire'[r].kind \in {"poll", "choose"}
      PROVE  LET page == pages'[wire'[r].page]
             IN  /\ page.at = "dashboard" /\ wire'[r].query \in Queries
                 /\ \A h \in Settings : wire'[r].query[h] \in page.own[h]
  <2>1. wire'[r] = wire[r]
    BY <1>2, <1>4, NoRequestIs
  <2>2. wire[r].page \in PageIds /\ (DoneAll(p) => wire[r].page # p)
    <3>1. DoneAll(p) => wire[r].page # p
      BY <1>2, <1>4, NoRequestIs
    <3> QED BY <3>1 DEF Shape, Requests
  <2>3. pages'[wire[r].page].at = pages[wire[r].page].at /\ pages'[wire[r].page].own = pages[wire[r].page].own
    BY <1>1, <2>2
  <2> QED BY <1>4, <2>1, <2>3 DEF PageInv
<1> QED BY <1>3, <1>4 DEF PageInv

\* web.go: a change made in another tab "does not leak into this one": for any
\* number of pages, requests in flight and settings, though the answers arrive
\* in any order.
THEOREM NothingLeaks == Spec => []NoLeak
<1>1. Init => PageInv
  <2> SUFFICES ASSUME Init PROVE PageInv
    OBVIOUS
  <2>1. pages = [p \in PageIds |-> Blank] /\ wire = [s \in Slots |-> NoRequest]
    BY DEF Init, InitPages
  <2>2. (\A p \in PageIds : pages[p].at = "blank") /\ \A s \in Slots : wire[s].stage = "free"
    BY <2>1, NoRequestIs DEF Blank
  <2> QED BY <2>2 DEF PageInv, NoLeak
<1>2. LoginInv /\ PageInv /\ [Next]_vars => PageInv'
  <2> SUFFICES ASSUME LoginInv, PageInv, [Next]_vars PROVE PageInv'
    OBVIOUS
  <2>1. Shape /\ CookiesAreWhole
    BY DEF LoginInv, KnownInv
  <2>2. CASE UNCHANGED vars \/ Tick
    <3>1. UNCHANGED <<pages, wire>>
      BY <2>2 DEF vars, browserVars, Tick
    <3> QED BY <3>1 DEF PageInv, NoLeak
  <2>3. CASE \E s \in Slots : Handle(s) \/ Receive(s) \/ \E p \in PageIds : Browse(s, p)
    BY <2>1, <2>3, PageBrowse, PageHandle, PageReceive
  <2> QED BY <2>2, <2>3 DEF Next
<1>3. PageInv => NoLeak
  BY DEF PageInv
<1> QED BY <1>1, <1>2, <1>3, LoginsCorrect, PTL DEF Spec

-----------------------------------------------------------------------------
(* How old the neighbours are.                                               *)

\* The list in the cache was read during a fetch that ended when it was stored.
CacheAged ==
    /\ cache.at <= now
    /\ cache.list # NoList => cache.list <= cache.at /\ cache.at - cache.list <= FetchTimeout

\* A fetch under way has not lasted too long and read its list since it began,
\* and the list of an answer is as old as it may be.
Aged(m) ==
    /\ m.stage \in {"sent", "admitted"} => m.list = NoList
    /\ m.stage = "fetching" =>
         /\ m.begun <= now /\ now <= m.begun + FetchTimeout
         /\ m.list # NoList => m.begun <= m.list /\ m.list <= now
    /\ m.stage = "served" /\ m.kind = "neighbors" => Recent(m.list, m.begun)

FetchInv == CacheAged /\ \A s \in Slots : Aged(wire[s])

\* The server's steps: a list that is shown comes from the cache while it is
\* good, or from a fetch that did not last longer than it may.
LEMMA FetchHandle ==
    ASSUME Shape, FetchInv, NEW s \in Slots, Handle(s)
    PROVE  FetchInv'
<1> DEFINE m == wire[s]
           list == cache.list
           at == cache.at
<1>1. /\ wire \in [Slots -> Requests] /\ m \in Requests /\ Proper(m) /\ now \in Nat
      /\ at \in Nat /\ list \in Times /\ CacheAged /\ Aged(m)
  BY DEF Shape, FetchInv
<1>2. m.begun \in Nat /\ m.list \in Times
  BY <1>1 DEF Requests
<1>3. /\ now' = now /\ wire'[s].kind = m.kind
      /\ Proper(wire'[s]) /\ \A r \in Slots \ {s} : wire'[r] = wire[r]
  BY HandleAnswers, AdmitIs DEF Handle
<1>4. CacheAged /\ now' = now /\ cache' = cache => CacheAged'
  BY DEF CacheAged
<1>5. ASSUME CacheAged', Aged(wire[s])' PROVE FetchInv'
  <2>1. \A r \in Slots \ {s} : Aged(wire[r])'
    BY <1>3 DEF FetchInv, Aged, Recent
  <2> QED BY <1>5, <2>1 DEF FetchInv
<1>6. ASSUME m.kind # "neighbors", Respond(s) PROVE Aged(wire[s])'
  <2>1. wire'[s].stage \in {"served", "refused", "fetching"}
    BY <1>6, HandleAnswers
  <2> QED BY <1>3, <1>6, <2>1 DEF Aged, Proper
<1>7. CASE HandleJobs(s) \/ HandleLogout(s) \/ \E t \in Tokens : HandleLogin(s, t)
  <2>1. m.kind # "neighbors" /\ cache' = cache /\ Respond(s)
    BY <1>7 DEF HandleJobs, HandleLogout, HandleLogin, Admitted, Respond
  <2> QED BY <1>1, <1>3, <1>4, <1>5, <1>6, <2>1
<1>8. CASE Refuse(s)
  <2> DEFINE n == [m EXCEPT !.stage = "refused"]
  <2>1. n \in Requests /\ n.stage = "refused" /\ Answer(s, n) /\ cache' = cache
    BY <1>1, <1>8 DEF Requests, Stages, Refuse
  <2> HIDE DEF n
  <2>2. wire'[s].stage = "refused"
    BY <1>1, <2>1, AnswerIs
  <2>3. Aged(wire[s])'
    BY <2>2 DEF Aged
  <2> QED BY <1>1, <1>3, <1>4, <1>5, <2>1, <2>3
<1>9. CASE HandleNeighbors(s) /\ Hit
  <2> DEFINE n == [m EXCEPT !.stage = "served", !.list = cache.list, !.begun = now]
  <2>1. Answer(s, n) /\ cache' = cache
    BY <1>9 DEF HandleNeighbors
  <2>2. n \in Requests /\ n.stage = "served" /\ n.list = list /\ n.begun = now
    BY <1>1 DEF Requests, Stages
  <2> HIDE DEF n
  <2>3. wire'[s].stage = "served" /\ wire'[s].list = list /\ wire'[s].begun = now
    BY <1>1, <2>1, <2>2, AnswerIs
  <2>4. list # NoList /\ now - at < CacheTTL /\ at - list <= FetchTimeout
    BY <1>1, <1>9 DEF Hit, CacheAged
  <2> HIDE DEF list, at
  <2>5. Recent(list, now)
    BY <1>1, <2>4, Constants DEF Recent, Times
  <2>6. Aged(wire[s])'
    BY <2>3, <2>5 DEF Aged, Recent
  <2> QED BY <1>1, <1>3, <1>4, <1>5, <2>1, <2>6
<1>10. CASE HandleNeighbors(s) /\ ~Hit
  <2> DEFINE n == [m EXCEPT !.stage = "fetching", !.begun = now, !.token = Never]
  <2>1. Answer(s, n) /\ cache' = cache /\ m.list = NoList
    BY <1>1, <1>10 DEF HandleNeighbors, Admitted, Aged
  <2>2. n \in Requests /\ n.stage = "fetching" /\ n.list = NoList /\ n.begun = now
    BY <1>1, <2>1 DEF Requests, Stages
  <2> HIDE DEF n
  <2>3. wire'[s].stage = "fetching" /\ wire'[s].list = NoList /\ wire'[s].begun = now
    BY <1>1, <2>1, <2>2, AnswerIs
  <2>4. Aged(wire[s])'
    BY <1>1, <1>3, <2>3, Constants DEF Aged
  <2> QED BY <1>1, <1>3, <1>4, <1>5, <2>1, <2>4
<1>11. CASE ReadSource(s)
  <2> DEFINE n == [m EXCEPT !.list = now]
  <2>1. Answer(s, n) /\ cache' = cache /\ m.stage = "fetching"
    BY <1>11 DEF ReadSource
  <2>2. n \in Requests /\ n.stage = "fetching" /\ n.list = now /\ n.begun = m.begun
    BY <1>1, <2>1 DEF Requests, Times
  <2> HIDE DEF n
  <2>3. wire'[s].stage = "fetching" /\ wire'[s].list = now /\ wire'[s].begun = m.begun
    BY <1>1, <2>1, <2>2, AnswerIs
  <2>4. Aged(wire[s])'
    BY <1>1, <1>3, <2>1, <2>3 DEF Aged
  <2> QED BY <1>1, <1>3, <1>4, <1>5, <2>1, <2>4
<1>12. CASE EndFetch(s)
  <2> DEFINE n == [m EXCEPT !.stage = "served", !.begun = now]
  <2>1. Answer(s, n) /\ cache' = [list |-> m.list, at |-> now] /\ m.stage = "fetching"
    BY <1>12 DEF EndFetch, Store
  <2>2. n \in Requests /\ n.stage = "served" /\ n.list = m.list /\ n.begun = now
    BY <1>1, <2>1 DEF Requests, Stages
  <2> HIDE DEF n
  <2>3. wire'[s].stage = "served" /\ wire'[s].list = m.list /\ wire'[s].begun = now
    BY <1>1, <2>1, <2>2, AnswerIs
  <2> DEFINE read == m.list
             begun == m.begun
  <2>4. read # NoList => begun <= read /\ read <= now /\ now <= begun + FetchTimeout
    BY <1>1, <2>1 DEF Aged
  <2>5. read \in Times /\ begun \in Nat
    BY <1>2
  <2>6. cache'.list = read /\ cache'.at = now
    BY <2>1
  <2>7. wire'[s].list = read
    BY <2>3
  <2> HIDE DEF read, begun
  <2>8. read # NoList => read <= now /\ now - read <= FetchTimeout
    BY <1>1, <2>4, <2>5, Constants DEF Times
  <2>9. CacheAged'
    BY <1>1, <1>3, <2>6, <2>8 DEF CacheAged
  <2>10. Recent(read, now)
    BY <1>1, <2>5, <2>8, Constants DEF Recent, Times
  <2>11. Aged(wire[s])'
    BY <2>3, <2>7, <2>10 DEF Aged, Recent
  <2> QED BY <1>5, <2>9, <2>11
<1>13. CASE FetchFails(s)
  <2> DEFINE n == [m EXCEPT !.stage = "served", !.list = NoList, !.begun = now]
  <2>1. Answer(s, n) /\ cache' = cache
    BY <1>13 DEF FetchFails
  <2>2. n \in Requests /\ n.stage = "served" /\ n.list = NoList /\ n.begun = now
    BY <1>1 DEF Requests, Stages, Times
  <2> HIDE DEF n
  <2>3. wire'[s].stage = "served" /\ wire'[s].list = NoList
    BY <1>1, <2>1, <2>2, AnswerIs
  <2>4. Aged(wire[s])'
    BY <2>3 DEF Aged, Recent
  <2> QED BY <1>1, <1>3, <1>4, <1>5, <2>1, <2>4
<1>14. CASE Admit(s)
  <2>1. wire'[s].stage = "admitted" /\ wire'[s].list = m.list /\ m.stage = "sent" /\ cache' = cache
    BY <1>14, AdmitIs
  <2>2. Aged(wire[s])'
    BY <1>1, <2>1 DEF Aged
  <2> QED BY <1>1, <1>3, <1>4, <1>5, <2>1, <2>2
<1> QED BY <1>7, <1>8, <1>9, <1>10, <1>11, <1>12, <1>13, <1>14 DEF Handle, Respond

\* The other steps: nothing is fetched for a page before it asks, and time does
\* not pass over the end of a fetch.
LEMMA FetchOthers ==
    ASSUME Shape, CookiesAreWhole, FetchInv,
           \/ Tick
           \/ \E s \in Slots : Receive(s) \/ \E p \in PageIds : Browse(s, p)
    PROVE  FetchInv'
<1>1. now \in Nat /\ cache.at \in Nat /\ cache.list \in Times /\ wire \in [Slots -> Requests]
  BY DEF Shape
<1>2. CASE Tick
  <2>1. /\ now' = now + 1 /\ UNCHANGED <<cache, wire>>
        /\ \A s \in Slots : wire[s].stage = "fetching" => now < wire[s].begun + FetchTimeout
    BY <1>2, TickForgets
  <2>2. CacheAged'
    BY <1>1, <2>1 DEF CacheAged, FetchInv
  <2>3. ASSUME NEW s \in Slots PROVE Aged(wire[s])'
    <3> DEFINE begun == wire[s].begun
               list == wire[s].list
    <3>1. begun \in Nat /\ list \in Times
      BY <1>1 DEF Requests
    <3>2. Aged(wire[s]) /\ wire'[s] = wire[s]
      BY <2>1 DEF FetchInv
    <3>3. wire[s].stage = "fetching" =>
            /\ begun <= now /\ now < begun + FetchTimeout
            /\ list # NoList => begun <= list /\ list <= now
      BY <2>1, <3>2 DEF Aged
    <3> HIDE DEF begun, list
    <3>4. wire[s].stage = "fetching" =>
            /\ begun <= now + 1 /\ now + 1 <= begun + FetchTimeout
            /\ list # NoList => begun <= list /\ list <= now + 1
      BY <1>1, <3>1, <3>3, Constants DEF Times
    <3> QED BY <2>1, <3>2, <3>4 DEF Aged, Recent, begun, list
  <2> QED BY <2>2, <2>3 DEF FetchInv
<1>3. ASSUME UNCHANGED <<now, cache>>, NEW s \in Slots,
             wire'[s] = NoRequest \/ (wire'[s].stage = "sent" /\ wire'[s].list = NoList),
             \A r \in Slots \ {s} : wire'[r] = wire[r] \/ wire'[r] = NoRequest
      PROVE  FetchInv'
  <2>1. CacheAged'
    BY <1>3 DEF CacheAged, FetchInv
  <2>2. ASSUME NEW r \in Slots PROVE Aged(wire[r])'
    <3>1. CASE wire'[r] = NoRequest
      BY <3>1, NoRequestIs DEF Aged
    <3>2. CASE r = s /\ wire'[s].stage = "sent" /\ wire'[s].list = NoList
      BY <3>2 DEF Aged
    <3>3. CASE wire'[r] = wire[r]
      BY <1>3, <3>3 DEF Aged, FetchInv, Recent
    <3> QED BY <1>3, <3>1, <3>2, <3>3
  <2> QED BY <2>1, <2>2 DEF FetchInv
<1>4. ASSUME NEW s \in Slots, Receive(s) PROVE FetchInv'
  <2>1. LET p == wire[s].page
        IN  p \in PageIds /\ (Done(s) \/ DoneAll(p)) /\ UNCHANGED <<now, cache>>
    BY <1>4, ReceiveShows
  <2>2. wire'[s] = NoRequest /\ \A r \in Slots : wire'[r] = wire[r] \/ wire'[r] = NoRequest
    BY <2>1, Consumed
  <2> QED BY <1>3, <2>1, <2>2
<1>5. ASSUME NEW s \in Slots, NEW p \in PageIds, Browse(s, p) PROVE FetchInv'
  <2>1. PICK kind \in Kinds, k \in Settings, form \in Forms : wire'[s] = Request(p, kind, k, form)
    BY <1>5, BrowseAsks
  <2>2. wire'[s].stage = "sent" /\ wire'[s].list = NoList
    BY <2>1, RequestIs
  <2>3. UNCHANGED <<now, cache>> /\ \A r \in Slots \ {s} : wire'[r] = wire[r] \/ wire'[r] = NoRequest
    BY <1>5, BrowseAsks
  <2> QED BY <1>3, <2>2, <2>3
<1> QED BY <1>2, <1>4, <1>5

\* The cache and the fetches are always what FetchInv says.
LEMMA FetchesCorrect == Spec => []FetchInv
<1>1. Init => FetchInv
  <2> SUFFICES ASSUME Init PROVE FetchInv
    OBVIOUS
  <2>1. now = 0 /\ cache = [list |-> NoList, at |-> 0] /\ wire = [s \in Slots |-> NoRequest]
    BY DEF Init, InitSessions, InitNeighbors
  <2> QED BY <2>1, NoRequestIs DEF FetchInv, CacheAged, Aged
<1>2. LoginInv /\ FetchInv /\ [Next]_vars => FetchInv'
  <2> SUFFICES ASSUME LoginInv, FetchInv, [Next]_vars PROVE FetchInv'
    OBVIOUS
  <2>1. Shape /\ CookiesAreWhole
    BY DEF LoginInv, KnownInv
  <2>2. CASE UNCHANGED vars
    BY <2>2 DEF vars, FetchInv, CacheAged, Aged, Recent
  <2>3. CASE Next
    BY <2>1, <2>3, FetchHandle, FetchOthers DEF Next
  <2> QED BY <2>2, <2>3
<1> QED BY <1>1, <1>2, LoginsCorrect, PTL DEF Spec

\* neighbors.go: the neighbours on a page are never older than the cache and
\* one fetch allow, however many fetches ran at once and in whatever order they
\* ended and stored what they read.
THEOREM NeighborsAreFresh == Spec => []NeighborsFresh
<1>1. FetchInv => NeighborsFresh
  BY DEF FetchInv, Aged, NeighborsFresh
<1> QED BY <1>1, FetchesCorrect, PTL

\* Every variable of Portal keeps its type: a token in the map of sessions was
\* drawn by a login and has the time of its drawing, the browser has no token
\* that the server did not draw, and no list is from the future.
THEOREM TypeCorrect == Spec => []TypeOK
<1>1. LoginInv /\ FetchInv => TypeOK
  <2> SUFFICES ASSUME LoginInv, FetchInv PROVE TypeOK
    OBVIOUS
  <2>1. Shape /\ SessionInv /\ KnownInv
    BY DEF LoginInv
  <2>2. TypeOKSessions
    BY <2>1 DEF SessionInv, TypeOKSessions
  <2>3. TypeOKPages
    BY <2>1 DEF Shape, Forms, PageStates, Queries, TypeOKPages
  <2>4. TypeOKNeighbors
    <3>1. now \in Nat /\ cache.at \in Nat /\ cache.list \in Times /\ cache.at <= now
          /\ (cache.list # NoList => cache.list <= cache.at)
      BY <2>1 DEF Shape, FetchInv, CacheAged
    <3> QED BY <3>1 DEF TypeOKNeighbors, Times
  <2>5. \A s \in Slots : wire[s].stage \in {"free", "sent", "admitted", "fetching", "served", "refused"}
    BY <2>1 DEF Shape, Requests, Stages
  <2> QED BY <2>1, <2>2, <2>3, <2>4, <2>5 DEF TypeOK, SessionInv, KnownInv
<1> QED BY <1>1, LoginsCorrect, FetchesCorrect, PTL
===============================================================================
