---------------------------- MODULE BrowserSession ----------------------------
(***************************************************************************)
(* The session as one tab of the browser sees it: the session context, the *)
(* login and signup forms, logout, the protected routes, the query cache   *)
(* and the interceptor of the API client, against the cookies that the     *)
(* handlers of auth/routes.py set.                                         *)
(*                                                                         *)
(* A request carries the cookies the jar holds when it is sent, and the    *)
(* server judges it then.  Its answer, and the Set-Cookie headers of that  *)
(* answer, come back at any later time, in any order with the answers of   *)
(* other requests, or never: the code cancels no request and numbers none. *)
(* Loading a page (by the user, or by the interceptor) starts the program  *)
(* anew: answers still on their way find no one, but the browser may       *)
(* already have stored the cookies of one of them.                         *)
(*                                                                         *)
(* The two forms differ only in their endpoint, so one route stands for    *)
(* both; the four protected pages, which share the cache of the scan list, *)
(* are the route "app".  Cookies change only by what this tab does.        *)
(***************************************************************************)
EXTENDS Naturals

CONSTANTS
    Users,     \* accounts
    NoOne,     \* no account
    Stale,     \* what a request presents whose access token has expired
    Calls,     \* submissions and logouts that may be under way at once
    NoCall     \* the mounted form has submitted nothing

ASSUME Distinct ==
    /\ NoOne \notin Users
    /\ Stale \notin Users \cup {NoOne}
    /\ NoCall \notin Calls
    /\ "none" \notin Users \cup {NoOne, Stale}

VARIABLES
    jar,     \* cookies: whose access token, whether it is valid, the CSRF token
    page,    \* route, session context, mounted form, cached scan list
    me,      \* what the GET /auth/me of the mount presented, or "none"
    call,    \* submissions and logouts under way
    scans,   \* what the GET /scans under way presented, or "none"
    past     \* history, for the properties only

vars == <<jar, page, me, call, scans, past>>

Accounts == Users \cup {NoOne}
Presented == Accounts \cup {Stale}
Routes == {"login", "app"}
Idle == [stage |-> "idle", who |-> NoOne, as |-> NoOne]

TypeOK ==
    /\ jar \in [account : Accounts, valid : BOOLEAN, csrf : BOOLEAN]
    /\ page \in [route : Routes, user : Accounts, loading : BOOLEAN,
                 form : Calls \cup {NoCall}, cache : Accounts]
    /\ me \in Presented \cup {"none"}
    /\ call \in [Calls -> [stage : {"idle", "csrf", "login", "logout"},
                           who : Accounts, as : Presented]]
    /\ scans \in Presented \cup {"none"}
    /\ past \in [shown : SUBSET Users, last : {"none", "in", "out"},
                 overtaken : BOOLEAN, redirects : 0..2, noToken : BOOLEAN]

Present == IF jar.account # NoOne /\ ~jar.valid THEN Stale ELSE jar.account

-----------------------------------------------------------------------------
(***************************************************************************)
(* What every render does: a protected route without a user, once loading  *)
(* is over, navigates to the login page.  Leaving the form unmounts it.    *)
(***************************************************************************)
ProtectedRoute(p) ==
    IF p.route = "app" /\ ~p.loading /\ p.user = NoOne
    THEN [p EXCEPT !.route = "login"]
    ELSE p

Render(p) ==
    LET q == ProtectedRoute(p)
    IN  page' = [q EXCEPT !.form = IF q.route = "app" THEN NoCall ELSE @]

\* Mutant: the protected page is rendered before the session is known.
MountedUngated == page.route = "app"

\* The protected page is rendered, and so observes the scan list.
Mounted == page.route = "app" /\ ~page.loading /\ page.user # NoOne

\* setSession and clearSession of the context, as the handlers go on to use
\* them: each navigates after it.
setSession(u) == [page EXCEPT !.user = u, !.loading = FALSE, !.route = "app"]

\* Mutant: setUser(null) is missing; the page only navigates.
clearSessionKeepsUser == [page EXCEPT !.loading = FALSE, !.route = "login"]

clearSession == [page EXCEPT !.user = NoOne, !.loading = FALSE, !.route = "login"]

Show(u) == IF u \in Users THEN past.shown \cup {u} ELSE past.shown

(***************************************************************************)
(* The cookies after the successful answer of a submission or a logout.    *)
(***************************************************************************)
SignIn(u) == [jar EXCEPT !.account = u, !.valid = TRUE]
SignOut == [jar EXCEPT !.account = NoOne, !.valid = FALSE]

StoreOf(c) ==
    CASE c = NoCall -> jar
      [] c # NoCall /\ call[c].stage = "login" -> SignIn(call[c].who)
      [] c # NoCall /\ call[c].stage = "logout" -> SignOut
      [] OTHER -> jar

(***************************************************************************)
(* A page is loaded: a new QueryClient, a new context whose mount asks     *)
(* /auth/me who the cookie belongs to, and nothing of the old page left.   *)
(* c is the call, if any, whose cookies were stored but whose answer no    *)
(* one received.                                                           *)
(***************************************************************************)
Load(route, c, redirects) ==
    /\ jar' = StoreOf(c)
    /\ page' = [route |-> route, user |-> NoOne, loading |-> TRUE,
                form |-> NoCall, cache |-> NoOne]
    /\ me' = Present'
    /\ call' = [d \in Calls |-> Idle]
    /\ scans' = "none"
    /\ past' = [shown |-> {}, last |-> "none", overtaken |-> FALSE,
                redirects |-> redirects, noToken |-> past.noToken]

Init ==
    /\ jar = [account |-> NoOne, valid |-> FALSE, csrf |-> FALSE]
    /\ page \in [route : Routes, user : {NoOne}, loading : {TRUE},
                 form : {NoCall}, cache : {NoOne}]
    /\ me = NoOne
    /\ call = [c \in Calls |-> Idle]
    /\ scans = "none"
    /\ past = [shown |-> {}, last |-> "none", overtaken |-> FALSE,
               redirects |-> 0, noToken |-> FALSE]

\* The history after something the user did.
Acted == [past EXCEPT !.redirects = 0]

\* The user opens or reloads a page.
Open(route, c) == Load(route, c, 0)

\* The user follows a link of the navigation bar or of a form.
GoTo(route) ==
    /\ Render([page EXCEPT !.route = route, !.form = NoCall])
    /\ past' = Acted
    /\ UNCHANGED <<jar, me, call, scans>>

\* The access token expires; nothing in the frontend refreshes it.
Expire ==
    /\ jar.valid
    /\ jar' = [jar EXCEPT !.valid = FALSE]
    /\ UNCHANGED <<page, me, call, scans, past>>

-----------------------------------------------------------------------------
\* Mutant: every 401 loads the login page.
shouldRedirectAlways(endpoint, route) == TRUE

(***************************************************************************)
(* The interceptor: a 401 of an endpoint that is not one of auth's, away   *)
(* from the login page, loads the login page.                              *)
(***************************************************************************)
shouldRedirectToLogin(endpoint, route) ==
    endpoint = "scans" /\ route # "login"

OnUnauthorized(endpoint, Otherwise) ==
    IF shouldRedirectToLogin(endpoint, page.route)
    THEN \E c \in Calls \cup {NoCall} :
             Load("login", c, IF past.redirects = 2 THEN 2 ELSE past.redirects + 1)
    ELSE Otherwise

\* Mutant: the 401 of get_me is returned without the headers of its response.
ensure_csrf_cookie_signed_in(as) == [jar EXCEPT !.csrf = @ \/ as \in Users]

(***************************************************************************)
(* What an answer of /auth/me leaves in the jar.  Signed in, or without an *)
(* access token, it carries a CSRF cookie if the request had none; for an  *)
(* expired one the 401 is an exception, and its answer carries no cookie.  *)
(***************************************************************************)
ensure_csrf_cookie(as) == [jar EXCEPT !.csrf = @ \/ as # Stale]

\* Mutant: the answer is stored without a look at its status.
refreshSessionAnyStatus ==
    LET user == me
        Local == /\ jar' = ensure_csrf_cookie(me)
                 /\ Render([page EXCEPT !.user = user, !.loading = FALSE])
                 /\ me' = "none"
                 /\ past' = [past EXCEPT !.shown = Show(user)]
                 /\ UNCHANGED <<call, scans>>
    IN  /\ me # "none"
        /\ Local

\* refreshSession, the answer 200 or 401 of the mount's /auth/me.
refreshSession ==
    LET user == IF me \in Users THEN me ELSE NoOne
        Local == /\ jar' = ensure_csrf_cookie(me)
                 /\ Render([page EXCEPT !.user = user, !.loading = FALSE])
                 /\ me' = "none"
                 /\ past' = [past EXCEPT !.shown = Show(user)]
                 /\ UNCHANGED <<call, scans>>
    IN  /\ me # "none"
        /\ IF me \in Users THEN Local ELSE OnUnauthorized("me", Local)

\* The request or its answer was lost, or the server failed.
RefreshSessionFails ==
    /\ me # "none"
    /\ me' = "none"
    /\ Render([page EXCEPT !.user = NoOne, !.loading = FALSE])
    /\ UNCHANGED <<jar, call, scans, past>>

-----------------------------------------------------------------------------
(***************************************************************************)
(* handleSubmit of the two forms.  The button is disabled while the        *)
(* mounted form waits; a form left and mounted again does not know of the  *)
(* submission the first one made.                                          *)
(***************************************************************************)
handleSubmit(c, u) ==
    /\ page.route = "login" /\ page.form = NoCall
    /\ call[c].stage = "idle"
    /\ call' = [call EXCEPT ![c] = [stage |-> "csrf", who |-> u, as |-> Present]]
    /\ page' = [page EXCEPT !.form = c]
    /\ past' = Acted
    /\ UNCHANGED <<jar, me, scans>>

\* The submission c is over and its form, if still mounted, enabled again.
Finish(c) ==
    /\ call' = [call EXCEPT ![c] = Idle]
    /\ page' = [page EXCEPT !.form = IF @ = c THEN NoCall ELSE @]

\* getCsrfToken and the POST, with the cookies cookies; without the CSRF
\* cookie the call throws.
Post(c, cookies) ==
    IF cookies.csrf
    THEN call' = [call EXCEPT ![c].stage = "login", ![c].as = NoOne] /\ UNCHANGED page
    ELSE Finish(c)

\* The /auth/me of bootstrapCsrf is answered, and the form posts.
bootstrapCsrf(c) ==
    LET cookies == ensure_csrf_cookie(call[c].as)
        Local == /\ jar' = cookies
                 /\ Post(c, cookies)
                 /\ past' = [past EXCEPT !.noToken = @ \/ ~cookies.csrf]
                 /\ UNCHANGED <<me, scans>>
    IN  /\ call[c].stage = "csrf"
        /\ IF call[c].as \in Users THEN Local ELSE OnUnauthorized("me", Local)

\* It is lost; the error is swallowed and the form posts all the same.
BootstrapLost(c) ==
    /\ call[c].stage = "csrf"
    /\ Post(c, jar)
    /\ UNCHANGED <<jar, me, scans, past>>

\* The server accepted: cookies, session context, destination.
login(c) ==
    LET u == call[c].who
    IN  /\ call[c].stage = "login"
        /\ jar' = SignIn(u)
        /\ Render(setSession(u))
        /\ call' = [call EXCEPT ![c] = Idle]
        /\ past' = [past EXCEPT !.shown = Show(u), !.last = "in",
                                !.overtaken = @ \/ me # "none"]
        /\ UNCHANGED <<me, scans>>

\* The server refused (401, 403, 409, 422, 429), failed, or was not reached.
LoginFails(c) ==
    /\ call[c].stage = "login"
    /\ OnUnauthorized("login", Finish(c) /\ UNCHANGED <<jar, me, scans, past>>)

-----------------------------------------------------------------------------
\* The logout button, shown on every page with a user and never disabled.
handleLogout(c) ==
    /\ page.user # NoOne
    /\ call[c].stage = "idle"
    /\ call' = [call EXCEPT ![c] = [stage |-> "logout", who |-> NoOne, as |-> NoOne]]
    /\ past' = Acted
    /\ UNCHANGED <<jar, page, me, scans>>

\* Its finally clause: the context is cleared whatever the request came to.
LoggedOut(c) ==
    /\ call[c].stage = "logout"
    /\ call' = [call EXCEPT ![c] = Idle]
    /\ Render(clearSession)
    /\ past' = [past EXCEPT !.last = "out", !.overtaken = @ \/ me # "none"]
    /\ UNCHANGED <<me, scans>>

logout(c) == LoggedOut(c) /\ jar' = SignOut

LogoutFails(c) == LoggedOut(c) /\ UNCHANGED jar

-----------------------------------------------------------------------------
(***************************************************************************)
(* The query ["scans"].  A page that observes it fetches on mount, on      *)
(* focus and after a failure; a fetch under way is shared, not repeated,   *)
(* and outlives the page that began it.                                    *)
(***************************************************************************)
FetchScans ==
    /\ Mounted
    /\ scans = "none"
    /\ scans' = Present
    /\ UNCHANGED <<jar, page, me, call, past>>

listScans ==
    /\ scans \in Users
    /\ page' = [page EXCEPT !.cache = scans]
    /\ scans' = "none"
    /\ UNCHANGED <<jar, me, call, past>>

ScansLost ==
    /\ scans' = "none"
    /\ UNCHANGED <<jar, page, me, call, past>>

ScansUnauthorized ==
    /\ scans \in {NoOne, Stale}
    /\ OnUnauthorized("scans", ScansLost)

ScansFail == scans # "none" /\ ScansLost

-----------------------------------------------------------------------------
Answer(c) ==
    \/ bootstrapCsrf(c) \/ BootstrapLost(c)
    \/ login(c) \/ LoginFails(c)
    \/ logout(c) \/ LogoutFails(c)

Next ==
    \/ \E r \in Routes, c \in Calls \cup {NoCall} : Open(r, c)
    \/ \E r \in Routes : GoTo(r)
    \/ Expire
    \/ refreshSession \/ RefreshSessionFails
    \/ \E c \in Calls, u \in Users : handleSubmit(c, u)
    \/ \E c \in Calls : handleLogout(c)
    \/ \E c \in Calls : Answer(c)
    \/ FetchScans \/ listScans \/ ScansUnauthorized \/ ScansFail

Spec == Init /\ [][Next]_vars

-----------------------------------------------------------------------------
(***************************************************************************)
(* What the page shows against the cookies it acts with.  Unless a login   *)
(* or a logout was answered before the mount's /auth/me, the page shows    *)
(* the cookie's account or nobody, and after a login it shows exactly the  *)
(* cookie's: a page never acts for an account other than the one it shows. *)
(***************************************************************************)
ShowsTheCookie ==
    \/ past.overtaken
    \/ /\ page.user \in {NoOne, jar.account}
       /\ past.last = "in" => page.user = jar.account

(***************************************************************************)
(* docs/auth-ui.md: after a successful authentication the returned user is *)
(* the session's, until a logout or a new page.  This is ShowsTheCookie's  *)
(* last part without its exception.                                        *)
(***************************************************************************)
AuthenticatedIsShown == past.last = "in" => page.user = jar.account

(***************************************************************************)
(* The cached list belongs to an account that this page has shown as       *)
(* signed in.  (To which of them is not promised: the cache survives a     *)
(* logout, and a fetch under way is shared by the next account's page.)    *)
(***************************************************************************)
CacheFollowsTheSession == page.cache # NoOne => page.cache \in past.shown

(***************************************************************************)
(* docs/auth-ui.md: no redirect loops.  Between two acts of the user the   *)
(* interceptor loads the login page at most once.                          *)
(***************************************************************************)
NoRedirectLoop == past.redirects <= 1

(***************************************************************************)
(* A form whose bootstrap was answered has a CSRF token to post with, the  *)
(* very first time and with any mixture of other cookies.                  *)
(***************************************************************************)
BootstrapSuffices == ~past.noToken
================================================================================
