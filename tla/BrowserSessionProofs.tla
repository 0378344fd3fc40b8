------------------------- MODULE BrowserSessionProofs -------------------------
(***************************************************************************)
(* BrowserSession for any number of accounts and of calls under way.       *)
(*                                                                         *)
(* The page shows the cookie's account because whatever may still change   *)
(* the session agrees with the jar: the mount's /auth/me, until a call     *)
(* overtakes it, presented the account that is still the jar's.  The cache *)
(* is of an account shown because the page fetches only while it shows     *)
(* one, and by then the jar's account has been shown, be it by that        *)
(* /auth/me or by the login that overtook it.                              *)
(***************************************************************************)
EXTENDS BrowserSession, TLAPS

\* Nobody overtook the mount's /auth/me: it speaks of the jar's account, and
\* until it is answered nobody is shown.
MountAgrees ==
    ~past.overtaken /\ me # "none" =>
        /\ me \in Users => me = jar.account
        /\ past.last = "none"
        /\ page.user = NoOne

\* The jar's account has been shown, or is about to be.
JarIsShown ==
    \/ jar.account \in past.shown \cup {NoOne}
    \/ page.user = NoOne /\ (me \in Users => me = jar.account)

\* The account of a fetch under way has been shown.
FetchIsShown == scans \in Users => scans \in past.shown

\* After a redirect nothing can make another until the user acts.
RedirectRests ==
    past.redirects > 0 =>
        page.route = "login" /\ \A c \in Calls : call[c].stage = "idle"

\* The stages of a call that has an account.
CallsAreOfUsers ==
    \A c \in Calls : call[c].stage \in {"csrf", "login"} => call[c].who \in Users

IInv ==
    /\ TypeOK
    /\ ShowsTheCookie
    /\ MountAgrees
    /\ JarIsShown
    /\ FetchIsShown
    /\ CacheFollowsTheSession
    /\ NoRedirectLoop
    /\ RedirectRests
    /\ CallsAreOfUsers

Pages == [route : Routes, user : Accounts, loading : BOOLEAN,
          form : Calls \cup {NoCall}, cache : Accounts]

DistinctNone == "none" \notin Presented /\ Stale \notin Accounts /\ NoOne \notin Users

LEMMA NoneIsNothing == DistinctNone
BY Distinct DEF DistinctNone, Presented, Accounts

\* A render keeps the session and the cache, and stays on the login page.
LEMMA Rendering ==
    ASSUME NEW p \in Pages, Render(p)
    PROVE  /\ page' \in Pages
           /\ page'.user = p.user
           /\ page'.cache = p.cache
           /\ p.route = "login" => page'.route = "login"
<1>1. /\ ProtectedRoute(p) \in Pages
      /\ ProtectedRoute(p).user = p.user
      /\ ProtectedRoute(p).cache = p.cache
      /\ p.route = "login" => ProtectedRoute(p).route = "login"
  BY DEF ProtectedRoute, Pages, Routes
<1> QED BY <1>1 DEF Render, Pages

\* A page that is loaded starts from the invariant, whichever call's cookies
\* are stored.
LEMMA Loading ==
    ASSUME TypeOK, CallsAreOfUsers,
           NEW r \in Routes, NEW c \in Calls \cup {NoCall}, NEW n \in 0..1,
           n = 1 => r = "login",
           Load(r, c, n)
    PROVE  IInv'
<1>1. /\ jar' \in [account : Accounts, valid : BOOLEAN, csrf : BOOLEAN]
  BY Distinct DEF TypeOK, Load, StoreOf, SignIn, SignOut, Accounts, CallsAreOfUsers
<1>2. /\ me' \in Presented
      /\ me' \in Users => me' = jar'.account
  BY <1>1, Distinct DEF Load, Present, Presented, Accounts
<1>3. /\ page'.user = NoOne /\ page'.cache = NoOne /\ page'.route = r
      /\ past'.last = "none" /\ past'.redirects = n
      /\ scans' = "none"
      /\ \A d \in Calls : call'[d] = Idle
  BY DEF Load
<1>4. TypeOK'
  <2>1. page' \in Pages
    BY DEF Load, Accounts, Pages
  <2>2. call' \in [Calls -> [stage : {"idle", "csrf", "login", "logout"},
                             who : Accounts, as : Presented]]
    BY DEF Load, Idle, Accounts, Presented
  <2>3. past' \in [shown : SUBSET Users, last : {"none", "in", "out"},
                   overtaken : BOOLEAN, redirects : 0..2, noToken : BOOLEAN]
    BY DEF Load, TypeOK
  <2> QED BY <1>1, <1>2, <1>3, <2>1, <2>2, <2>3 DEF TypeOK, Pages
<1>5. ShowsTheCookie' /\ MountAgrees' /\ JarIsShown'
  BY <1>2, <1>3 DEF ShowsTheCookie, MountAgrees, JarIsShown
<1>6. FetchIsShown' /\ CacheFollowsTheSession'
  BY <1>3, NoneIsNothing DEF FetchIsShown, CacheFollowsTheSession, DistinctNone,
     Presented, Accounts
<1>7. NoRedirectLoop' /\ RedirectRests'
  BY <1>3 DEF NoRedirectLoop, RedirectRests, Idle
<1>8. CallsAreOfUsers'
  BY <1>3 DEF CallsAreOfUsers, Idle
<1> QED BY <1>4, <1>5, <1>6, <1>7, <1>8 DEF IInv

\* The interceptor's page load, too: it happens away from the login page,
\* hence not after another one.
LEMMA Redirecting ==
    ASSUME IInv, page.route # "login",
           NEW c \in Calls \cup {NoCall},
           Load("login", c, IF past.redirects = 2 THEN 2 ELSE past.redirects + 1)
    PROVE  IInv'
<1>1. past.redirects = 0
  BY DEF IInv, RedirectRests, TypeOK
<1>2. Load("login", c, 1)
  BY <1>1
<1> QED BY <1>2, Loading DEF IInv, Routes

LEMMA RefreshSessionStep == ASSUME IInv, refreshSession PROVE IInv'
<1> DEFINE user == IF me \in Users THEN me ELSE NoOne
<1>1. /\ me # "none"
      /\ jar' = ensure_csrf_cookie(me)
      /\ Render([page EXCEPT !.user = user, !.loading = FALSE])
      /\ me' = "none"
      /\ past' = [past EXCEPT !.shown = Show(user)]
      /\ UNCHANGED <<call, scans>>
  BY DEF refreshSession, OnUnauthorized, shouldRedirectToLogin
<1>2. /\ page'.user = user
      /\ page'.cache = page.cache
      /\ page.route = "login" => page'.route = "login"
      /\ page' \in Pages
  <2> DEFINE p == [page EXCEPT !.user = user, !.loading = FALSE]
  <2>1. p \in Pages /\ p.user = user /\ p.cache = page.cache /\ p.route = page.route
    BY DEF IInv, TypeOK, Accounts, Pages
  <2>2. Render(p)
    BY <1>1
  <2> HIDE DEF p
  <2> QED BY <2>1, <2>2, Rendering
<1>3. /\ jar'.account = jar.account
      /\ jar' \in [account : Accounts, valid : BOOLEAN, csrf : BOOLEAN]
  BY <1>1 DEF ensure_csrf_cookie, IInv, TypeOK
<1>4. /\ past'.last = past.last /\ past'.overtaken = past.overtaken
      /\ past'.redirects = past.redirects
      /\ past'.shown = Show(user)
      /\ past' \in [shown : SUBSET Users, last : {"none", "in", "out"},
                    overtaken : BOOLEAN, redirects : 0..2, noToken : BOOLEAN]
  BY <1>1 DEF IInv, TypeOK, Show
<1>5. TypeOK'
  BY <1>1, <1>2, <1>3, <1>4 DEF IInv, TypeOK, Pages
<1>6. ShowsTheCookie' /\ MountAgrees' /\ JarIsShown'
  BY <1>1, <1>2, <1>3, <1>4, NoneIsNothing
  DEF IInv, ShowsTheCookie, MountAgrees, JarIsShown, Show, DistinctNone, Presented, Accounts
<1>7. FetchIsShown' /\ CacheFollowsTheSession'
  BY <1>1, <1>2, <1>4 DEF IInv, FetchIsShown, CacheFollowsTheSession, Show
<1>8. NoRedirectLoop' /\ RedirectRests' /\ CallsAreOfUsers'
  BY <1>1, <1>2, <1>4 DEF IInv, NoRedirectLoop, RedirectRests, CallsAreOfUsers
<1> QED BY <1>5, <1>6, <1>7, <1>8 DEF IInv

\* The loss of the mount's /auth/me leaves nobody signed in.
LEMMA RefreshSessionFailsStep == ASSUME IInv, RefreshSessionFails PROVE IInv'
<1> DEFINE p == [page EXCEPT !.user = NoOne, !.loading = FALSE]
<1>1. p \in Pages /\ p.user = NoOne /\ p.cache = page.cache /\ p.route = page.route
  BY DEF IInv, TypeOK, Pages, Accounts
<1>2. me # "none" /\ Render(p) /\ me' = "none" /\ UNCHANGED <<jar, call, scans, past>>
  BY DEF RefreshSessionFails
<1> HIDE DEF p
<1>3. /\ page' \in Pages /\ page'.user = NoOne /\ page'.cache = page.cache
      /\ page.route = "login" => page'.route = "login"
  BY <1>1, <1>2, Rendering
<1>4. TypeOK'
  BY <1>2, <1>3 DEF IInv, TypeOK, Pages
<1>5. ShowsTheCookie' /\ MountAgrees' /\ JarIsShown'
  BY <1>2, <1>3, NoneIsNothing
  DEF IInv, ShowsTheCookie, MountAgrees, JarIsShown, DistinctNone, Presented, Accounts
<1> QED BY <1>2, <1>3, <1>4, <1>5
  DEF IInv, FetchIsShown, CacheFollowsTheSession, NoRedirectLoop, RedirectRests, CallsAreOfUsers

Jars == [account : Accounts, valid : BOOLEAN, csrf : BOOLEAN]

CallStates == [Calls -> [stage : {"idle", "csrf", "login", "logout"},
                         who : Accounts, as : Presented]]

\* Steps that touch neither the session, the mount's request nor the jar's
\* account keep the invariant, if what they fetch and cache is of an account
\* shown and they begin no call without resetting the count of redirects.
LEMMA Steady ==
    ASSUME IInv,
           jar' \in Jars, jar'.account = jar.account,
           page' \in Pages, page'.user = page.user,
           page'.cache # NoOne => page'.cache \in past.shown,
           me' = me,
           call' \in CallStates, CallsAreOfUsers',
           scans' \in Presented \cup {"none"},
           scans' \in Users => scans' \in past.shown,
           past'.shown = past.shown, past'.last = past.last,
           past'.overtaken = past.overtaken, past'.noToken \in BOOLEAN,
           past' = [shown |-> past'.shown, last |-> past'.last, overtaken |-> past'.overtaken,
                    redirects |-> past'.redirects, noToken |-> past'.noToken],
           \/ past'.redirects = 0
           \/ past'.redirects = past.redirects /\ RedirectRests'
    PROVE  IInv'
<1>1. TypeOK'
  BY DEF IInv, TypeOK, Jars, Pages, CallStates
<1>2. ShowsTheCookie' /\ MountAgrees' /\ JarIsShown'
  BY DEF IInv, ShowsTheCookie, MountAgrees, JarIsShown
<1>3. FetchIsShown' /\ CacheFollowsTheSession'
  BY DEF FetchIsShown, CacheFollowsTheSession
<1>4. NoRedirectLoop' /\ RedirectRests'
  BY DEF IInv, NoRedirectLoop, RedirectRests
<1> QED BY <1>1, <1>2, <1>3, <1>4 DEF IInv

\* What the invariant says of the parts a steady step leaves alone.
LEMMA Rest ==
    ASSUME IInv
    PROVE  /\ jar \in Jars /\ page \in Pages /\ call \in CallStates
           /\ scans \in Presented \cup {"none"} /\ FetchIsShown /\ CacheFollowsTheSession
           /\ CallsAreOfUsers /\ RedirectRests /\ past.redirects \in 0..2
           /\ past.noToken \in BOOLEAN
           /\ past = [shown |-> past.shown, last |-> past.last, overtaken |-> past.overtaken,
                      redirects |-> past.redirects, noToken |-> past.noToken]
BY DEF IInv, TypeOK, Jars, Pages, CallStates

LEMMA GoToStep == ASSUME IInv, NEW r \in Routes, GoTo(r) PROVE IInv'
<1> DEFINE p == [page EXCEPT !.route = r, !.form = NoCall]
<1>1. p \in Pages /\ p.user = page.user /\ p.cache = page.cache
  BY Rest DEF Pages
<1>2. Render(p) /\ past' = Acted /\ UNCHANGED <<jar, me, call, scans>>
  BY DEF GoTo
<1> HIDE DEF p
<1>3. page' \in Pages /\ page'.user = page.user /\ page'.cache = page.cache
  BY <1>1, <1>2, Rendering
<1>4. /\ past'.shown = past.shown /\ past'.last = past.last
      /\ past'.overtaken = past.overtaken /\ past'.noToken = past.noToken
      /\ past'.redirects = 0
      /\ past' = [shown |-> past'.shown, last |-> past'.last, overtaken |-> past'.overtaken,
                  redirects |-> past'.redirects, noToken |-> past'.noToken]
  BY <1>2, Rest DEF Acted
<1> QED
  BY <1>2, <1>3, <1>4, Rest, Steady DEF FetchIsShown, CacheFollowsTheSession, CallsAreOfUsers

LEMMA ExpireStep == ASSUME IInv, Expire PROVE IInv'
<1>1. jar' \in Jars /\ jar'.account = jar.account /\ UNCHANGED <<page, me, call, scans, past>>
  BY Rest DEF Expire, Jars
<1> QED
  BY <1>1, Rest, Steady DEF FetchIsShown, CacheFollowsTheSession, CallsAreOfUsers, RedirectRests

LEMMA HandleSubmitStep ==
    ASSUME IInv, NEW c \in Calls, NEW u \in Users, handleSubmit(c, u)
    PROVE  IInv'
<1>1. page' \in Pages /\ page'.user = page.user /\ page'.cache = page.cache
  BY Rest DEF handleSubmit, Pages
<1>2. call' \in CallStates /\ CallsAreOfUsers'
  <2>1. [stage |-> "csrf", who |-> u, as |-> Present] \in
            [stage : {"idle", "csrf", "login", "logout"}, who : Accounts, as : Presented]
    BY Rest DEF Present, Presented, Accounts, Jars
  <2> QED BY <2>1, Rest DEF handleSubmit, CallStates, CallsAreOfUsers
<1>3. /\ past'.shown = past.shown /\ past'.last = past.last
      /\ past'.overtaken = past.overtaken /\ past'.noToken = past.noToken
      /\ past'.redirects = 0
      /\ past' = [shown |-> past'.shown, last |-> past'.last, overtaken |-> past'.overtaken,
                  redirects |-> past'.redirects, noToken |-> past'.noToken]
  BY Rest DEF handleSubmit, Acted
<1>4. UNCHANGED <<jar, me, scans>>
  BY DEF handleSubmit
<1> QED BY <1>1, <1>2, <1>3, <1>4, Rest, Steady DEF FetchIsShown, CacheFollowsTheSession

\* While a call is under way no redirect has happened since the user acted.
LEMMA UnderWay ==
    ASSUME IInv, NEW c \in Calls, call[c].stage # "idle"
    PROVE  past.redirects = 0
BY DEF IInv, RedirectRests, TypeOK

LEMMA Finishing ==
    ASSUME IInv, NEW c \in Calls, Finish(c)
    PROVE  /\ page' \in Pages /\ page'.user = page.user /\ page'.cache = page.cache
           /\ call' \in CallStates /\ CallsAreOfUsers'
<1>1. Idle \in [stage : {"idle", "csrf", "login", "logout"}, who : Accounts, as : Presented]
  BY DEF Idle, Accounts, Presented
<1>2. call' \in CallStates /\ CallsAreOfUsers'
  BY <1>1, Rest DEF Finish, CallStates, CallsAreOfUsers, Idle
<1>3. page' \in Pages /\ page'.user = page.user /\ page'.cache = page.cache
  BY Rest DEF Finish, Pages
<1> QED BY <1>2, <1>3

LEMMA Posting ==
    ASSUME IInv, NEW c \in Calls, call[c].stage = "csrf", NEW cookies, Post(c, cookies)
    PROVE  /\ page' \in Pages /\ page'.user = page.user /\ page'.cache = page.cache
           /\ call' \in CallStates /\ CallsAreOfUsers'
<1>1. CASE call' = [call EXCEPT ![c].stage = "login", ![c].as = NoOne] /\ UNCHANGED page
  BY <1>1, Rest DEF CallStates, CallsAreOfUsers, Presented, Accounts
<1>2. CASE Finish(c)
  BY <1>2, Finishing
<1> QED BY <1>1, <1>2 DEF Post

LEMMA BootstrapCsrfStep == ASSUME IInv, NEW c \in Calls, bootstrapCsrf(c) PROVE IInv'
<1> DEFINE cookies == ensure_csrf_cookie(call[c].as)
<1>1. /\ call[c].stage = "csrf"
      /\ jar' = cookies
      /\ Post(c, cookies)
      /\ past' = [past EXCEPT !.noToken = @ \/ ~cookies.csrf]
      /\ UNCHANGED <<me, scans>>
  BY DEF bootstrapCsrf, OnUnauthorized, shouldRedirectToLogin
<1>2. jar' \in Jars /\ jar'.account = jar.account
  BY <1>1, Rest DEF ensure_csrf_cookie, Jars
<1>3. /\ page' \in Pages /\ page'.user = page.user /\ page'.cache = page.cache
      /\ call' \in CallStates /\ CallsAreOfUsers'
  BY <1>1, Posting
<1>4. /\ past'.shown = past.shown /\ past'.last = past.last
      /\ past'.overtaken = past.overtaken /\ past'.noToken \in BOOLEAN
      /\ past'.redirects = 0
      /\ past' = [shown |-> past'.shown, last |-> past'.last, overtaken |-> past'.overtaken,
                  redirects |-> past'.redirects, noToken |-> past'.noToken]
  <2> DEFINE v == past.noToken \/ ~cookies.csrf
  <2>1. past.redirects = 0
    BY <1>1, UnderWay
  <2>2. v \in BOOLEAN /\ past' = [past EXCEPT !.noToken = v]
    BY <1>1
  <2> HIDE DEF v
  <2> QED BY <2>1, <2>2, Rest
<1> QED BY <1>1, <1>2, <1>3, <1>4, Rest, Steady DEF FetchIsShown, CacheFollowsTheSession

LEMMA BootstrapLostStep == ASSUME IInv, NEW c \in Calls, BootstrapLost(c) PROVE IInv'
<1>1. call[c].stage = "csrf" /\ Post(c, jar) /\ UNCHANGED <<jar, me, scans, past>>
  BY DEF BootstrapLost
<1>2. /\ page' \in Pages /\ page'.user = page.user /\ page'.cache = page.cache
      /\ call' \in CallStates /\ CallsAreOfUsers'
  BY <1>1, Posting
<1>3. past'.redirects = 0
  BY <1>1, UnderWay
<1> QED BY <1>1, <1>2, <1>3, Rest, Steady DEF FetchIsShown, CacheFollowsTheSession

LEMMA LoginFailsStep == ASSUME IInv, NEW c \in Calls, LoginFails(c) PROVE IInv'
<1>1. call[c].stage = "login" /\ Finish(c) /\ UNCHANGED <<jar, me, scans, past>>
  BY DEF LoginFails, OnUnauthorized, shouldRedirectToLogin
<1>2. /\ page' \in Pages /\ page'.user = page.user /\ page'.cache = page.cache
      /\ call' \in CallStates /\ CallsAreOfUsers'
  BY <1>1, Finishing
<1>3. past'.redirects = 0
  BY <1>1, UnderWay
<1> QED BY <1>1, <1>2, <1>3, Rest, Steady DEF FetchIsShown, CacheFollowsTheSession

\* A call that is over is idle again.
LEMMA Ending ==
    ASSUME IInv, NEW c \in Calls, call' = [call EXCEPT ![c] = Idle]
    PROVE  call' \in CallStates /\ CallsAreOfUsers'
<1>1. Idle \in [stage : {"idle", "csrf", "login", "logout"}, who : Accounts, as : Presented]
  BY DEF Idle, Accounts, Presented
<1> QED BY <1>1, Rest DEF CallStates, CallsAreOfUsers, Idle

\* An accepted login: the jar and the page change together.
LEMMA LoginStep == ASSUME IInv, NEW c \in Calls, login(c) PROVE IInv'
<1> DEFINE u == call[c].who
           p == setSession(u)
           o == past.overtaken \/ me # "none"
<1>1. /\ call[c].stage = "login"
      /\ jar' = SignIn(u)
      /\ Render(p)
      /\ call' = [call EXCEPT ![c] = Idle]
      /\ past' = [past EXCEPT !.shown = Show(u), !.last = "in", !.overtaken = o]
      /\ UNCHANGED <<me, scans>>
  BY DEF login
<1>2. u \in Users
  BY <1>1 DEF IInv, CallsAreOfUsers
<1>3. p \in Pages /\ p.user = u /\ p.cache = page.cache
  BY <1>2, Rest DEF setSession, Pages, Routes, Accounts
<1>4. page' \in Pages /\ page'.user = u /\ page'.cache = page.cache
  <2> HIDE DEF p
  <2> QED BY <1>1, <1>3, Rendering
<1>5. jar' \in Jars /\ jar'.account = u
  BY <1>1, <1>2, Rest DEF SignIn, Jars, Accounts
<1>6. call' \in CallStates /\ CallsAreOfUsers'
  BY <1>1, Ending
<1>7. /\ past'.shown = past.shown \cup {u} /\ past'.last = "in"
      /\ past'.overtaken = o /\ past'.redirects = 0
      /\ past' \in [shown : SUBSET Users, last : {"none", "in", "out"},
                    overtaken : BOOLEAN, redirects : 0..2, noToken : BOOLEAN]
  <2>1. o \in BOOLEAN
    BY DEF IInv, TypeOK
  <2>2. past.redirects = 0
    BY <1>1, UnderWay
  <2> HIDE DEF o
  <2> QED BY <1>1, <1>2, <2>1, <2>2 DEF IInv, TypeOK, Show
<1>8. TypeOK'
  BY <1>1, <1>4, <1>5, <1>6, <1>7 DEF IInv, TypeOK, Jars, Pages, CallStates
<1>9. ShowsTheCookie' /\ MountAgrees' /\ JarIsShown'
  BY <1>1, <1>4, <1>5, <1>7 DEF ShowsTheCookie, MountAgrees, JarIsShown
<1>10. FetchIsShown' /\ CacheFollowsTheSession'
  BY <1>1, <1>4, <1>7, Rest DEF FetchIsShown, CacheFollowsTheSession
<1>11. NoRedirectLoop' /\ RedirectRests'
  BY <1>7 DEF NoRedirectLoop, RedirectRests
<1> QED BY <1>6, <1>8, <1>9, <1>10, <1>11 DEF IInv

\* The end of a logout, whether its answer cleared the jar or got lost.
LEMMA LoggedOutStep ==
    ASSUME IInv, NEW c \in Calls, LoggedOut(c), jar' \in {jar, SignOut}
    PROVE  IInv'
<1> DEFINE o == past.overtaken \/ me # "none"
<1>1. /\ call[c].stage = "logout"
      /\ call' = [call EXCEPT ![c] = Idle]
      /\ Render(clearSession)
      /\ past' = [past EXCEPT !.last = "out", !.overtaken = o]
      /\ UNCHANGED <<me, scans>>
  BY DEF LoggedOut
<1>2. /\ clearSession \in Pages /\ clearSession.user = NoOne
      /\ clearSession.cache = page.cache
  BY Rest DEF clearSession, Pages, Routes, Accounts
<1>3. page' \in Pages /\ page'.user = NoOne /\ page'.cache = page.cache
  BY <1>1, <1>2, Rendering
<1>4. jar' \in Jars /\ jar'.account \in {jar.account, NoOne}
  BY Rest DEF SignOut, Jars, Accounts
<1>5. call' \in CallStates /\ CallsAreOfUsers'
  BY <1>1, Ending
<1>6. /\ past'.shown = past.shown /\ past'.last = "out"
      /\ past'.overtaken = o /\ past'.redirects = 0
      /\ past' \in [shown : SUBSET Users, last : {"none", "in", "out"},
                    overtaken : BOOLEAN, redirects : 0..2, noToken : BOOLEAN]
  <2>1. o \in BOOLEAN
    BY DEF IInv, TypeOK
  <2>2. past.redirects = 0
    BY <1>1, UnderWay
  <2> HIDE DEF o
  <2> QED BY <1>1, <2>1, <2>2 DEF IInv, TypeOK
<1>7. TypeOK'
  BY <1>1, <1>3, <1>4, <1>5, <1>6 DEF IInv, TypeOK, Jars, Pages, CallStates
<1>8. ShowsTheCookie' /\ MountAgrees'
  BY <1>1, <1>3, <1>6 DEF ShowsTheCookie, MountAgrees
<1>9. JarIsShown'
  BY <1>1, <1>3, <1>4, <1>6 DEF IInv, JarIsShown
<1>10. FetchIsShown' /\ CacheFollowsTheSession'
  BY <1>1, <1>3, <1>6, Rest DEF FetchIsShown, CacheFollowsTheSession
<1>11. NoRedirectLoop' /\ RedirectRests'
  BY <1>6 DEF NoRedirectLoop, RedirectRests
<1> QED BY <1>5, <1>7, <1>8, <1>9, <1>10, <1>11 DEF IInv

LEMMA HandleLogoutStep == ASSUME IInv, NEW c \in Calls, handleLogout(c) PROVE IInv'
<1>1. call' \in CallStates /\ CallsAreOfUsers'
  <2>1. [stage |-> "logout", who |-> NoOne, as |-> NoOne] \in
            [stage : {"idle", "csrf", "login", "logout"}, who : Accounts, as : Presented]
    BY DEF Presented, Accounts
  <2> QED BY <2>1, Rest DEF handleLogout, CallStates, CallsAreOfUsers
<1>2. /\ past'.shown = past.shown /\ past'.last = past.last
      /\ past'.overtaken = past.overtaken /\ past'.noToken = past.noToken
      /\ past'.redirects = 0
      /\ past' = [shown |-> past'.shown, last |-> past'.last, overtaken |-> past'.overtaken,
                  redirects |-> past'.redirects, noToken |-> past'.noToken]
  BY Rest DEF handleLogout, Acted
<1>3. UNCHANGED <<jar, page, me, scans>>
  BY DEF handleLogout
<1> QED BY <1>1, <1>2, <1>3, Rest, Steady DEF FetchIsShown, CacheFollowsTheSession

\* The page that fetches shows an account, so the jar's has been shown.
LEMMA FetchScansStep == ASSUME IInv, FetchScans PROVE IInv'
<1>1. Mounted /\ scans' = Present /\ UNCHANGED <<jar, page, me, call, past>>
  BY DEF FetchScans
<1>2. jar.account \in past.shown \cup {NoOne}
  BY <1>1 DEF IInv, JarIsShown, Mounted
<1>3. scans' \in Presented \cup {"none"} /\ (scans' \in Users => scans' \in past.shown)
  BY <1>1, <1>2, Rest, Distinct DEF Present, Presented, Accounts, Jars
<1> QED BY <1>1, <1>3, Rest, Steady DEF CacheFollowsTheSession, CallsAreOfUsers, RedirectRests

LEMMA ListScansStep == ASSUME IInv, listScans PROVE IInv'
<1>1. /\ page' \in Pages /\ page'.user = page.user /\ page'.cache \in past.shown
      /\ page'.route = page.route
  BY Rest DEF listScans, Pages, Accounts, FetchIsShown
<1>2. scans' = "none" /\ UNCHANGED <<jar, me, call, past>>
  BY DEF listScans
<1> QED BY <1>1, <1>2, Rest, NoneIsNothing, Steady
  DEF CallsAreOfUsers, RedirectRests, DistinctNone, Presented, Accounts

LEMMA ScansLostStep == ASSUME IInv, ScansLost PROVE IInv'
<1>1. scans' = "none" /\ UNCHANGED <<jar, page, me, call, past>>
  BY DEF ScansLost
<1> QED BY <1>1, Rest, NoneIsNothing, Steady
  DEF CallsAreOfUsers, RedirectRests, CacheFollowsTheSession, DistinctNone, Presented, Accounts

LEMMA ScansUnauthorizedStep == ASSUME IInv, ScansUnauthorized PROVE IInv'
<1>1. CASE page.route # "login"
  BY <1>1, Redirecting DEF ScansUnauthorized, OnUnauthorized, shouldRedirectToLogin
<1>2. CASE page.route = "login"
  BY <1>2, ScansLostStep DEF ScansUnauthorized, OnUnauthorized, shouldRedirectToLogin
<1> QED BY <1>1, <1>2

LEMMA OpenStep ==
    ASSUME IInv, NEW r \in Routes, NEW c \in Calls \cup {NoCall}, Open(r, c)
    PROVE  IInv'
BY Loading DEF Open, IInv

LEMMA Stutter == ASSUME IInv, UNCHANGED vars PROVE IInv'
BY DEF IInv, vars, TypeOK, ShowsTheCookie, MountAgrees, JarIsShown, FetchIsShown,
   CacheFollowsTheSession, NoRedirectLoop, RedirectRests, CallsAreOfUsers

LEMMA Initially == Init => IInv
<1> SUFFICES ASSUME Init PROVE IInv
  OBVIOUS
<1>1. TypeOK
  <2>1. /\ jar \in [account : Accounts, valid : BOOLEAN, csrf : BOOLEAN]
        /\ me \in Presented \cup {"none"} /\ scans \in Presented \cup {"none"}
    BY DEF Init, Accounts, Presented
  <2>2. page \in [route : Routes, user : Accounts, loading : BOOLEAN,
                  form : Calls \cup {NoCall}, cache : Accounts]
    BY DEF Init, Accounts
  <2>3. call \in [Calls -> [stage : {"idle", "csrf", "login", "logout"},
                            who : Accounts, as : Presented]]
    BY DEF Init, Idle, Accounts, Presented
  <2>4. past \in [shown : SUBSET Users, last : {"none", "in", "out"},
                  overtaken : BOOLEAN, redirects : 0..2, noToken : BOOLEAN]
    BY DEF Init
  <2> QED BY <2>1, <2>2, <2>3, <2>4 DEF TypeOK
<1>2. ShowsTheCookie /\ MountAgrees /\ JarIsShown
  BY Distinct DEF Init, ShowsTheCookie, MountAgrees, JarIsShown
<1>3. FetchIsShown /\ CacheFollowsTheSession
  BY Distinct DEF Init, FetchIsShown, CacheFollowsTheSession
<1>4. NoRedirectLoop /\ RedirectRests /\ CallsAreOfUsers
  BY DEF Init, NoRedirectLoop, RedirectRests, CallsAreOfUsers, Idle
<1> QED BY <1>1, <1>2, <1>3, <1>4 DEF IInv

LEMMA NextStep == IInv /\ [Next]_vars => IInv'
<1> SUFFICES ASSUME IInv, [Next]_vars PROVE IInv'
  OBVIOUS
<1>1. CASE \E r \in Routes, c \in Calls \cup {NoCall} : Open(r, c)
  BY <1>1, OpenStep
<1>2. CASE \E r \in Routes : GoTo(r)
  BY <1>2, GoToStep
<1>3. CASE Expire
  BY <1>3, ExpireStep
<1>4. CASE refreshSession \/ RefreshSessionFails
  BY <1>4, RefreshSessionStep, RefreshSessionFailsStep
<1>5. CASE \E c \in Calls, u \in Users : handleSubmit(c, u)
  BY <1>5, HandleSubmitStep
<1>6. CASE \E c \in Calls : handleLogout(c)
  BY <1>6, HandleLogoutStep
<1>7. CASE \E c \in Calls : Answer(c)
  <2> SUFFICES ASSUME NEW c \in Calls, Answer(c) PROVE IInv'
    BY <1>7
  <2>1. CASE bootstrapCsrf(c) \/ BootstrapLost(c)
    BY <2>1, BootstrapCsrfStep, BootstrapLostStep
  <2>2. CASE login(c) \/ LoginFails(c)
    BY <2>2, LoginStep, LoginFailsStep
  <2>3. CASE logout(c) \/ LogoutFails(c)
    BY <2>3, LoggedOutStep DEF logout, LogoutFails
  <2> QED BY <2>1, <2>2, <2>3 DEF Answer
<1>8. CASE FetchScans \/ listScans
  BY <1>8, FetchScansStep, ListScansStep
<1>9. CASE ScansUnauthorized \/ ScansFail
  BY <1>9, ScansUnauthorizedStep, ScansLostStep DEF ScansFail
<1>10. CASE UNCHANGED vars
  BY <1>10, Stutter
<1> QED BY <1>1, <1>2, <1>3, <1>4, <1>5, <1>6, <1>7, <1>8, <1>9, <1>10 DEF Next

THEOREM Invariant == Spec => []IInv
BY Initially, NextStep, PTL DEF Spec

\* Every variable of the tab, the jar and the network keeps its type.
THEOREM TypeCorrect == Spec => []TypeOK
<1>1. IInv => TypeOK
  BY DEF IInv
<1> QED BY <1>1, Invariant, PTL

\* Unless an answer overtook the mount's /auth/me, the page shows the account
\* of the cookie it acts with.
THEOREM CookieShown == Spec => []ShowsTheCookie
<1>1. IInv => ShowsTheCookie
  BY DEF IInv
<1> QED BY <1>1, Invariant, PTL

\* A cached scan list is of an account the page has shown as signed in.
THEOREM CacheFollows == Spec => []CacheFollowsTheSession
<1>1. IInv => CacheFollowsTheSession
  BY DEF IInv
<1> QED BY <1>1, Invariant, PTL

\* The interceptor never loads the login page twice without the user acting.
THEOREM RedirectsOnce == Spec => []NoRedirectLoop
<1>1. IInv => NoRedirectLoop
  BY DEF IInv
<1> QED BY <1>1, Invariant, PTL

-----------------------------------------------------------------------------
(***************************************************************************)
(* The CSRF cookie is never taken away, and whoever has an access cookie,  *)
(* expired or not, got it from a login and therefore had a CSRF cookie.    *)
(***************************************************************************)
TokenKept ==
    /\ jar.account # NoOne => jar.csrf
    /\ \A c \in Calls :
          /\ call[c].stage = "login" => jar.csrf
          /\ call[c].stage = "csrf" /\ call[c].as = Stale => jar.csrf
    /\ ~past.noToken

LEMMA TokenInitially == Init => TokenKept
BY DEF Init, TokenKept, Idle

\* A page load keeps it, whatever cookies it finds.
LEMMA TokenLoading ==
    ASSUME TypeOK, TokenKept, NEW r, NEW c \in Calls \cup {NoCall}, NEW n, Load(r, c, n)
    PROVE  TokenKept'
<1>1. jar' = StoreOf(c)
      /\ call' = [d \in Calls |-> Idle] /\ past'.noToken = past.noToken
  BY DEF Load
<1>2. jar'.account # NoOne => jar'.csrf
  <2>1. CASE c = NoCall
    BY <1>1, <2>1, Distinct DEF StoreOf, TokenKept
  <2>2. CASE c \in Calls /\ call[c].stage = "login"
    BY <1>1, <2>2, Distinct DEF StoreOf, TokenKept, SignIn, TypeOK
  <2>3. CASE c \in Calls /\ call[c].stage = "logout"
    BY <1>1, <2>3, Distinct DEF StoreOf, TokenKept, SignOut, TypeOK
  <2>4. CASE c \in Calls /\ call[c].stage \notin {"login", "logout"}
    BY <1>1, <2>4, Distinct DEF StoreOf, TokenKept
  <2> QED BY <2>1, <2>2, <2>3, <2>4
<1> QED BY <1>1, <1>2 DEF TokenKept, Idle

\* The other steps never drop the cookie, and post only with it.
LEMMA TokenSteady ==
    ASSUME TypeOK, TokenKept, ~past'.noToken,
           jar.csrf => jar'.csrf,
           jar'.account # NoOne => jar.account # NoOne \/ jar'.csrf,
           \A c \in Calls : \/ call'[c] = call[c]
                            \/ call'[c].stage \in {"idle", "logout"}
                            \/ call'[c].stage = "login" /\ jar'.csrf
                            \/ /\ call'[c].stage = "csrf"
                               /\ call'[c].as = Stale => jar'.csrf
    PROVE  TokenKept'
BY DEF TokenKept

LEMMA TokenPost ==
    ASSUME TypeOK, TokenKept, NEW c \in Calls, call[c].stage = "csrf",
           NEW cookies, Post(c, cookies), jar' = cookies,
           jar.csrf => jar'.csrf, jar'.account = jar.account,
           past'.noToken = FALSE
    PROVE  TokenKept'
<1>1. CASE cookies.csrf /\ call' = [call EXCEPT ![c].stage = "login", ![c].as = NoOne]
  <2>1. \A d \in Calls : call'[d] = call[d] \/ (call'[d].stage = "login" /\ jar'.csrf)
    BY <1>1 DEF TypeOK
  <2> QED BY <2>1, TokenSteady
<1>2. CASE Finish(c)
  <2>1. \A d \in Calls : call'[d] = call[d] \/ call'[d].stage = "idle"
    BY <1>2 DEF Finish, Idle, TypeOK
  <2> QED BY <2>1, TokenSteady
<1> QED BY <1>1, <1>2 DEF Post

LEMMA TokenNext == IInv /\ TokenKept /\ [Next]_vars => TokenKept'
<1> SUFFICES ASSUME IInv, TokenKept, [Next]_vars PROVE TokenKept'
  OBVIOUS
<1> USE DEF TypeOK
<1>0. TypeOK
  BY DEF IInv
<1>1. CASE \E r \in Routes, c \in Calls \cup {NoCall} : Open(r, c)
  BY <1>0, <1>1, TokenLoading DEF Open
<1>2. CASE \E r \in Routes : GoTo(r)
  BY <1>0, <1>2, TokenSteady DEF GoTo, Acted, TokenKept
<1>3. CASE Expire
  BY <1>0, <1>3, TokenSteady DEF Expire, TokenKept
<1>4. CASE refreshSession
  BY <1>0, <1>4, TokenSteady
  DEF refreshSession, OnUnauthorized, shouldRedirectToLogin, ensure_csrf_cookie, TokenKept
<1>5. CASE RefreshSessionFails
  BY <1>0, <1>5, TokenSteady DEF RefreshSessionFails, TokenKept
<1>6. CASE \E c \in Calls, u \in Users : handleSubmit(c, u)
  <2> SUFFICES ASSUME NEW c \in Calls, NEW u \in Users, handleSubmit(c, u)
               PROVE  TokenKept'
    BY <1>6
  <2>1. call'[c].stage = "csrf" /\ (call'[c].as = Stale => jar'.csrf)
    BY <1>0, Distinct DEF handleSubmit, Present, TokenKept, Accounts
  <2>2. \A d \in Calls \ {c} : call'[d] = call[d]
    BY <1>0 DEF handleSubmit
  <2>3. jar' = jar /\ past'.noToken = past.noToken
    BY <1>0 DEF handleSubmit, Acted
  <2> QED BY <1>0, <2>1, <2>2, <2>3, TokenSteady DEF TokenKept
<1>7. CASE \E c \in Calls : handleLogout(c)
  <2> SUFFICES ASSUME NEW c \in Calls, handleLogout(c) PROVE TokenKept'
    BY <1>7
  <2>1. /\ \A d \in Calls : call'[d] = call[d] \/ call'[d].stage = "logout"
        /\ jar' = jar /\ past'.noToken = past.noToken
    BY <1>0 DEF handleLogout, Acted
  <2> QED BY <1>0, <2>1, TokenSteady DEF TokenKept
<1>8. CASE \E c \in Calls : bootstrapCsrf(c)
  <2> SUFFICES ASSUME NEW c \in Calls, bootstrapCsrf(c) PROVE TokenKept'
    BY <1>8
  <2> DEFINE cookies == ensure_csrf_cookie(call[c].as)
  <2>1. /\ call[c].stage = "csrf" /\ jar' = cookies /\ Post(c, cookies)
        /\ past' = [past EXCEPT !.noToken = @ \/ ~cookies.csrf]
    BY DEF bootstrapCsrf, OnUnauthorized, shouldRedirectToLogin
  <2>2. cookies.csrf /\ cookies.account = jar.account
    BY <1>0, <2>1 DEF ensure_csrf_cookie, TokenKept
  <2>3. past'.noToken = FALSE
    BY <1>0, <2>1, <2>2 DEF TokenKept
  <2> HIDE DEF cookies
  <2> QED BY <1>0, <2>1, <2>2, <2>3, TokenPost
<1>9. CASE \E c \in Calls : BootstrapLost(c)
  BY <1>0, <1>9, TokenPost DEF BootstrapLost, TokenKept
<1>10. CASE \E c \in Calls : login(c)
  <2> SUFFICES ASSUME NEW c \in Calls, login(c) PROVE TokenKept'
    BY <1>10
  <2>1. jar'.csrf
    BY <1>0 DEF login, SignIn, TokenKept
  <2>2. \A d \in Calls : call'[d] = call[d] \/ call'[d].stage = "idle"
    BY <1>0 DEF login, Idle
  <2>3. past'.noToken = past.noToken
    BY <1>0 DEF login
  <2> QED BY <1>0, <2>1, <2>2, <2>3, TokenSteady DEF TokenKept
<1>11. CASE \E c \in Calls : LoginFails(c)
  <2> SUFFICES ASSUME NEW c \in Calls, LoginFails(c) PROVE TokenKept'
    BY <1>11
  <2>1. Finish(c) /\ UNCHANGED <<jar, past>>
    BY DEF LoginFails, OnUnauthorized, shouldRedirectToLogin
  <2>2. \A d \in Calls : call'[d] = call[d] \/ call'[d].stage = "idle"
    BY <1>0, <2>1 DEF Finish, Idle
  <2> QED BY <1>0, <2>1, <2>2, TokenSteady DEF TokenKept
<1>12. CASE \E c \in Calls : logout(c) \/ LogoutFails(c)
  <2> SUFFICES ASSUME NEW c \in Calls, logout(c) \/ LogoutFails(c) PROVE TokenKept'
    BY <1>12
  <2>1. LoggedOut(c) /\ jar' \in {jar, SignOut}
    BY DEF logout, LogoutFails
  <2>2. jar'.csrf = jar.csrf /\ jar'.account \in {jar.account, NoOne}
    BY <1>0, <2>1 DEF SignOut
  <2>3. /\ \A d \in Calls : call'[d] = call[d] \/ call'[d].stage = "idle"
        /\ past'.noToken = past.noToken
    BY <1>0, <2>1 DEF LoggedOut, Idle
  <2> QED BY <1>0, <2>2, <2>3, TokenSteady DEF TokenKept
<1>13. CASE FetchScans \/ listScans
  BY <1>0, <1>13, TokenSteady DEF FetchScans, listScans, TokenKept
<1>14. CASE ScansUnauthorized
  BY <1>0, <1>14, TokenSteady, TokenLoading
  DEF ScansUnauthorized, OnUnauthorized, ScansLost, TokenKept
<1>15. CASE ScansFail
  BY <1>0, <1>15, TokenSteady DEF ScansFail, ScansLost, TokenKept
<1>16. CASE UNCHANGED vars
  BY <1>16, TokenSteady DEF vars, TokenKept
<1> QED
  BY <1>1, <1>2, <1>3, <1>4, <1>5, <1>6, <1>7, <1>8, <1>9, <1>10, <1>11, <1>12, <1>13,
     <1>14, <1>15, <1>16 DEF Next, Answer

\* A form whose bootstrap was answered always has a CSRF token to post with.
THEOREM AlwaysAToken == Spec => []BootstrapSuffices
<1>1. TokenKept => BootstrapSuffices
  BY DEF TokenKept, BootstrapSuffices
<1> QED BY <1>1, TokenInitially, TokenNext, Invariant, PTL DEF Spec
================================================================================
