-------------------------------- MODULE Pages --------------------------------
(***************************************************************************)
(* The pages of a browser that show the dashboard, and the modes of the    *)
(* job list (handlers.go and web.go of app/web, with the htmx attributes   *)
(* of its templates).  A page keeps its modes in its controls and sends    *)
(* them with each poll; the cookie, which all pages share, is for the page *)
(* that is loaded next.                                                    *)
(* A definition introduced by "Slip" is a plausible mistake in the one     *)
(* after it, used by no behaviour.                                         *)
(***************************************************************************)
EXTENDS Naturals

CONSTANTS
    PageIds,     \* the pages (tabs) of the browser
    Settings,    \* "filter" and "sort"
    Modes,       \* the modes of each setting
    Default,     \* the mode of each setting without a cookie
    NoMode       \* no value in a form, no cookie

VARIABLES
    modeCookies, \* the cookies "filter-mode" and "sort-mode"
    pages        \* what each page shows

NoForm == [k \in Settings |-> NoMode]

\* at is "blank" (nothing loaded), "login" or "dashboard"; shown is the list of
\* neighbours on the page; own is a history variable: the modes the page was
\* loaded with and the ones its user chose.
Blank == [at |-> "blank", controls |-> Default, table |-> Default,
          own |-> [k \in Settings |-> {}]]

InitPages == modeCookies = NoForm /\ pages = [p \in PageIds |-> Blank]

\* Slip: the cookie comes before what the page sent.
ModeCookieFirst(k, form, cookies) ==
    CASE cookies[k] # NoMode -> cookies[k]
      [] cookies[k] = NoMode /\ form[k] # NoMode -> form[k]
      [] OTHER -> Default[k]

\* getFilterMode and getSortMode: what the page sent, else the cookie.
Mode(k, form, cookies) ==
    CASE form[k] # NoMode -> form[k]
      [] form[k] = NoMode /\ cookies[k] # NoMode -> cookies[k]
      [] OTHER -> Default[k]

\* The query a handler answers: the list is rendered with these modes.
Query(form, cookies) == [k \in Settings |-> Mode(k, form, cookies)]

\* A tab button and the sort select send the new mode with the other control's.
Choice(p, k, mode) == [pages[p].controls EXCEPT ![k] = mode]

\* The user of a page chooses a mode.
Choose(p, k, mode) ==
    pages' = [pages EXCEPT ![p].own[k] = @ \cup {mode}] /\ UNCHANGED modeCookies

\* The whole page is rendered from the query.
ShowDashboard(p, query) ==
    /\ pages' = [pages EXCEPT ![p] = [at |-> "dashboard", controls |-> query, table |-> query,
                                      own |-> [k \in Settings |-> {query[k]}]]]
    /\ UNCHANGED modeCookies

ShowLogin(p) ==
    pages' = [pages EXCEPT ![p] = [Blank EXCEPT !.at = "login"]] /\ UNCHANGED modeCookies

\* The answer to a poll has the table and the counts ...
ShowTable(p, query) ==
    pages' = [pages EXCEPT ![p].table = query] /\ UNCHANGED modeCookies

\* ... the one to a choice sets the cookie and renders the controls as well.
ShowChoice(p, k, query) ==
    /\ pages' = [pages EXCEPT ![p].table = query, ![p].controls = query]
    /\ modeCookies' = [modeCookies EXCEPT ![k] = query[k]]

TypeOKPages ==
    /\ \A k \in Settings : modeCookies[k] \in Modes[k] \cup {NoMode}
    /\ \A p \in PageIds :
         /\ pages[p].at \in {"blank", "login", "dashboard"}
         /\ \A k \in Settings :
              /\ {pages[p].controls[k], pages[p].table[k]} \subseteq Modes[k]
              /\ pages[p].own[k] \subseteq Modes[k]
=============================================================================
