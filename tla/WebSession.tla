----------------------------- MODULE WebSession -----------------------------
(***************************************************************************)
(* The session of the web application: who is signed in, in several tabs   *)
(* of one browser.                                                         *)
(*                                                                         *)
(* A tab keeps the session in its Redux store (authSlice) and in one of    *)
(* two storages (authStorage): localStorage, which all tabs share, when    *)
(* the user is remembered, and the tab's own sessionStorage otherwise.  A  *)
(* request takes its token from the storages, not from the store.  A       *)
(* handler runs to its end without a break; the answer to its request      *)
(* comes at any later time, and its continuation works on the user that    *)
(* was signed in when it was sent.                                         *)
(***************************************************************************)
EXTENDS Naturals, FiniteSets

CONSTANTS
    Tabs, Users,
    RoleOf,     \* "SLAVE" or "ADMIN"; a provider's session is like a copier's
    Requests,   \* bound: requests in flight
    MaxTokens,  \* bound: logins
    None

ASSUME SessionAssumption ==
    /\ RoleOf \in [Users -> {"SLAVE", "ADMIN"}]
    /\ MaxTokens \in Nat /\ None \notin Users \cup Tabs

VARIABLES
    auth,            \* the Redux store of a tab
    localStorage,    \* tsp_user and tsp_access_token
    sessionStorage,  \* the same, per tab
    page,            \* what a tab shows
    request,         \* the requests in flight
    owner,           \* whom a token was issued to
    expired,         \* tokens past their exp
    disabled,        \* users the administrator has disabled
    late,            \* history: an answer came to a session other than its request's
    foreign          \* history: tabs whose storage another tab wrote since they took it over

sessionVars == <<auth, localStorage, sessionStorage, page, request, owner, expired, disabled,
                 late, foreign>>

Tokens == 1 .. MaxTokens
NoToken == 0
Pages == {"login", "dashboard", "admin", "traders"}
Pairs == [user : Users \cup {None}, token : Tokens \cup {NoToken}]
NoPair == [user |-> None, token |-> NoToken]

Auth == [user : Users \cup {None}, accessToken : Tokens \cup {NoToken}, isAuthenticated : BOOLEAN,
         rememberMe : BOOLEAN, rehydratedFromStorage : BOOLEAN]

\* user: who is signed in as the request is sent; token: what it carries, if the server
\* would take that.
Request == [tab : Tabs \cup {None}, kind : {"none", "subscribe", "fetch"},
            user : Users \cup {None}, token : Tokens \cup {NoToken}]
NoRequest == [tab |-> None, kind |-> "none", user |-> None, token |-> NoToken]

TypeOK ==
    /\ auth \in [Tabs -> Auth]
    /\ localStorage \in Pairs
    /\ sessionStorage \in [Tabs -> Pairs]
    /\ page \in [Tabs -> Pages]
    /\ request \in [Requests -> Request]
    /\ owner \in [Tokens -> Users \cup {None}]
    /\ expired \subseteq Tokens /\ disabled \subseteq Users
    /\ late \in BOOLEAN /\ foreign \subseteq Tabs

InitialState == [user |-> None, accessToken |-> NoToken, isAuthenticated |-> FALSE,
                 rememberMe |-> TRUE, rehydratedFromStorage |-> FALSE]
LoggedOut == [InitialState EXCEPT !.rehydratedFromStorage = TRUE]

SessionInit ==
    /\ auth = [t \in Tabs |-> InitialState]
    /\ localStorage = NoPair
    /\ sessionStorage = [t \in Tabs |-> NoPair]
    /\ page \in [Tabs -> Pages]
    /\ request = [r \in Requests |-> NoRequest]
    /\ owner = [k \in Tokens |-> None]
    /\ expired = {} /\ disabled = {}
    /\ late = FALSE /\ foreign = {}

----------------------------------------------------------------------------
(* authStorage *)

\* getItem: localStorage first.
GetItem(t, key) == IF key = "user"
    THEN IF localStorage.user # None THEN localStorage.user ELSE sessionStorage[t].user
    ELSE IF localStorage.token # NoToken THEN localStorage.token ELSE sessionStorage[t].token

\* The tabs that find another session in localStorage than they left there.
Foreign(t) == IF localStorage' = localStorage THEN foreign \ {t} ELSE (foreign \cup Tabs) \ {t}

ClearSession(t) ==
    /\ localStorage' = NoPair
    /\ sessionStorage' = [sessionStorage EXCEPT ![t] = NoPair]
    /\ foreign' = Foreign(t)

\* Mutant: the other storage keeps what it has.
SetSessionKeepsOther(t, remember, pair) ==
    /\ localStorage' = IF remember THEN pair ELSE localStorage
    /\ sessionStorage' = [sessionStorage EXCEPT ![t] = IF remember THEN @ ELSE pair]
    /\ foreign' = Foreign(t)

SetSession(t, remember, pair) ==
    /\ localStorage' = IF remember THEN pair ELSE NoPair
    /\ sessionStorage' = [sessionStorage EXCEPT ![t] = IF remember THEN NoPair ELSE pair]
    /\ foreign' = Foreign(t)

StorageUnchanged == UNCHANGED <<localStorage, sessionStorage, foreign>>

IsJwtExpired(k) == k \in expired

----------------------------------------------------------------------------
(* authSlice *)

PersistAuth(t, state) ==
    IF state.user # None /\ state.accessToken # NoToken
    THEN SetSession(t, state.rememberMe, [user |-> state.user, token |-> state.accessToken])
    ELSE ClearSession(t)

\* Mutant: the fields of the user are taken over, but not who it is that signed in.
LoginSuccessMerges(t, u, k, remember) ==
    LET state == [auth[t] EXCEPT !.user = IF @ = None THEN u ELSE @, !.isAuthenticated = TRUE,
                      !.rehydratedFromStorage = TRUE,
                      !.accessToken = IF k = NoToken THEN @ ELSE k,
                      !.rememberMe = IF k = NoToken THEN @ ELSE remember]
    IN auth' = [auth EXCEPT ![t] = state] /\ PersistAuth(t, state)

\* k = NoToken: a refresh of the user's fields, which keeps the token there is.
LoginSuccess(t, u, k, remember) ==
    LET state == [auth[t] EXCEPT !.user = u, !.isAuthenticated = TRUE,
                      !.rehydratedFromStorage = TRUE,
                      !.accessToken = IF k = NoToken THEN @ ELSE k,
                      !.rememberMe = IF k = NoToken THEN @ ELSE remember]
    IN auth' = [auth EXCEPT ![t] = state] /\ PersistAuth(t, state)

Logout(t) == auth' = [auth EXCEPT ![t] = LoggedOut] /\ ClearSession(t)

\* hydrateAuth, as ReduxProvider mounts.  A token past its time clears both storages.
Hydrate(t) ==
    LET u == GetItem(t, "user")
        k == GetItem(t, "token")
    IN /\ ~auth[t].rehydratedFromStorage
       /\ IF u = None \/ k = NoToken
          THEN /\ auth' = [auth EXCEPT ![t] = LoggedOut]
               /\ IF u = None THEN foreign' = foreign \ {t} /\ UNCHANGED <<localStorage, sessionStorage>>
                  ELSE ClearSession(t)
          ELSE IF IsJwtExpired(k)
          THEN auth' = [auth EXCEPT ![t] = LoggedOut] /\ ClearSession(t)
          ELSE /\ auth' = [auth EXCEPT ![t] = [user |-> u, accessToken |-> k, isAuthenticated |-> TRUE,
                      rememberMe |-> localStorage.user # None, rehydratedFromStorage |-> TRUE]]
               /\ foreign' = foreign \ {t}
               /\ UNCHANGED <<localStorage, sessionStorage>>
       /\ UNCHANGED <<page, request, owner, expired, disabled, late>>

----------------------------------------------------------------------------
(* Pages *)

\* What a guarded page renders: the rest of the time it is blank.
Shown(t) ==
    CASE page[t] = "dashboard" -> auth[t].isAuthenticated /\ auth[t].user # None
                                  /\ RoleOf[auth[t].user] # "ADMIN"
      [] page[t] = "admin" -> auth[t].isAuthenticated /\ auth[t].user # None
                                  /\ RoleOf[auth[t].user] = "ADMIN"
      [] OTHER -> TRUE
Blank(t) == ~(auth[t].rehydratedFromStorage /\ Shown(t))

\* The page is loaded anew or its tab closed and opened: the store is empty, the answers to
\* its requests are lost; a new tab has a sessionStorage of its own.  Nobody does so during the
\* instant in which a page is blank.
Load(t) ==
    /\ ~Blank(t)
    /\ auth' = [auth EXCEPT ![t] = InitialState]
    /\ request' = [r \in Requests |-> IF request[r].tab = t THEN NoRequest ELSE request[r]]
    /\ sessionStorage' \in {sessionStorage, [sessionStorage EXCEPT ![t] = NoPair]}
    /\ \E p \in Pages : page' = [page EXCEPT ![t] = p]
    /\ UNCHANGED <<localStorage, owner, expired, disabled, late, foreign>>

\* Mutant: the pages look at the role only.
GuardRole(t) ==
    /\ auth[t].rehydratedFromStorage /\ ~Shown(t) /\ auth[t].isAuthenticated
    /\ page' = [page EXCEPT ![t] = IF page[t] = "admin" THEN "dashboard" ELSE "admin"]
    /\ UNCHANGED <<auth, localStorage, sessionStorage, request, owner, expired, disabled, late, foreign>>

\* The effects of the dashboard and admin pages.
Guard(t) ==
    /\ auth[t].rehydratedFromStorage /\ ~Shown(t)
    /\ page' = [page EXCEPT ![t] = IF ~auth[t].isAuthenticated THEN "login"
                                   ELSE IF page[t] = "admin" THEN "dashboard" ELSE "admin"]
    /\ UNCHANGED <<auth, localStorage, sessionStorage, request, owner, expired, disabled, late, foreign>>

\* The navigation bar.
Links(t) ==
    IF ~auth[t].isAuthenticated THEN {"traders", "login"}
    ELSE {"traders", "dashboard"} \cup IF RoleOf[auth[t].user] = "ADMIN" THEN {"admin"} ELSE {}

Follow(t, p) ==
    /\ auth[t].rehydratedFromStorage /\ p \in Links(t) \ {page[t]}
    /\ page' = [page EXCEPT ![t] = p]
    /\ UNCHANGED <<auth, localStorage, sessionStorage, request, owner, expired, disabled, late, foreign>>

HandleLogout(t) ==
    /\ auth[t].rehydratedFromStorage /\ auth[t].isAuthenticated
    /\ Logout(t)
    /\ page' = [page EXCEPT ![t] = "login"]
    /\ UNCHANGED <<request, owner, expired, disabled, late>>

----------------------------------------------------------------------------
(* Requests *)

\* JwtStrategy.validate: a token that has run out, or a user who is disabled by now.
Accepted(k) == k # NoToken /\ k \notin expired /\ owner[k] \notin disabled

\* The request interceptor: the token of the storages.
Send(t, kind, u) ==
    LET k == GetItem(t, "token") IN
    /\ \E r \in Requests :
           /\ request[r] = NoRequest
           /\ request' = [request EXCEPT ![r] = [tab |-> t, kind |-> kind, user |-> u,
                  token |-> IF Accepted(k) THEN k ELSE NoToken]]
    /\ UNCHANGED <<auth, localStorage, sessionStorage, page, owner, expired, disabled, late, foreign>>

\* handleSubscribe of the dashboard and handleCopyProvider of a provider's page.
Subscribe(t) ==
    /\ page[t] \in {"dashboard", "traders"} /\ ~Blank(t)
    /\ auth[t].user # None /\ RoleOf[auth[t].user] = "SLAVE"
    /\ Send(t, "subscribe", auth[t].user)

\* A page fetches what only its user may see.
Fetch(t) ==
    /\ page[t] \in {"dashboard", "admin"} /\ ~Blank(t)
    /\ Send(t, "fetch", None)

\* The answer to a login or to the code of verify-email, with a new token; disabled users get
\* one too.  The tab may be on another page by now, and nothing has looked at the session
\* in the meantime: the request is not kept.
SignedIn(t) ==
    /\ auth[t].rehydratedFromStorage
    /\ \E k \in Tokens, u \in Users, remember \in BOOLEAN :
           /\ owner[k] = None /\ \A j \in 1 .. k - 1 : owner[j] # None
           /\ owner' = [owner EXCEPT ![k] = u]
           /\ LoginSuccess(t, u, k, remember)
    /\ page' = [page EXCEPT ![t] = "dashboard"]
    /\ UNCHANGED <<request, expired, disabled, late>>

Heard(r, kind) == request[r].kind = kind /\ request' = [request EXCEPT ![r] = NoRequest]

\* The server took the token, which may have run out since, and the subscription is the
\* token's user's, or the token an administrator's.
Granted(r) ==
    /\ request[r].token # NoToken
    /\ \/ request[r].kind = "fetch"
       \/ owner[request[r].token] = request[r].user
       \/ RoleOf[owner[request[r].token]] = "ADMIN"

\* The page's user as it was, with the new subscription; a provider's page goes on to the
\* dashboard.
SubscribeDone(r) ==
    LET t == request[r].tab IN
    /\ Heard(r, "subscribe") /\ Granted(r)
    /\ LoginSuccess(t, request[r].user, NoToken, FALSE)
    /\ page' \in {page, [page EXCEPT ![t] = "dashboard"]}
    /\ late' = (late \/ auth[t].user # request[r].user)
    /\ UNCHANGED <<owner, expired, disabled>>

\* The page fills in what it has fetched.
FetchDone(r) ==
    /\ Heard(r, "fetch") /\ Granted(r)
    /\ UNCHANGED <<auth, localStorage, sessionStorage, page, owner, expired, disabled, late, foreign>>

\* Another user's subscription or a failing server: the page stays as it is.
Fails(r) ==
    /\ \E kind \in {"subscribe", "fetch"} : Heard(r, kind)
    /\ UNCHANGED <<auth, localStorage, sessionStorage, page, owner, expired, disabled, late, foreign>>

\* The response interceptor signs out whoever is signed in by now.
Unauthorized(r) ==
    /\ \E kind \in {"subscribe", "fetch"} : Heard(r, kind)
    /\ ~Accepted(request[r].token)
    /\ Logout(request[r].tab)
    /\ UNCHANGED <<page, owner, expired, disabled, late>>

Expire(k) ==
    /\ owner[k] # None /\ k \notin expired
    /\ expired' = expired \cup {k}
    /\ UNCHANGED <<auth, localStorage, sessionStorage, page, request, owner, disabled, late, foreign>>

Disable(u) ==
    /\ u \notin disabled /\ RoleOf[u] # "ADMIN"
    /\ disabled' = disabled \cup {u}
    /\ UNCHANGED <<auth, localStorage, sessionStorage, page, request, owner, expired, late, foreign>>

Browser(t) == Hydrate(t) \/ Guard(t)

Answer(r) == SubscribeDone(r) \/ FetchDone(r) \/ Fails(r) \/ Unauthorized(r)

SessionNext ==
    \/ \E t \in Tabs :
          \/ Browser(t) \/ Load(t) \/ HandleLogout(t)
          \/ SignedIn(t) \/ Subscribe(t) \/ Fetch(t)
          \/ \E p \in Pages : Follow(t, p)
    \/ \E r \in Requests : Answer(r)
    \/ \E k \in Tokens : Expire(k)
    \/ \E u \in Users : Disable(u)

\* React runs the effects it has scheduled; users and the network need not do anything.
SessionSpec ==
    /\ SessionInit /\ [][SessionNext]_sessionVars
    /\ \A t \in Tabs : WF_sessionVars(Browser(t))

----------------------------------------------------------------------------
(* Properties *)

Fits(u, k) == (u = None /\ k = NoToken) \/ (u # None /\ k # NoToken /\ owner[k] = u)

\* In the store and in both storages a session is whole and one person's: the user that is
\* shown is the user whose token it is, and nobody is signed in without one.  Only an answer
\* to a subscription that comes after its session has ended can break this: its loginSuccess
\* puts its user back, without a token or beside the next user's.
SessionIsOnePersons ==
    \/ late
    \/ /\ \A t \in Tabs : /\ Fits(auth[t].user, auth[t].accessToken)
                          /\ Fits(sessionStorage[t].user, sessionStorage[t].token)
                          /\ auth[t].isAuthenticated <=> auth[t].user # None
       /\ Fits(localStorage.user, localStorage.token)

\* What a tab sends is what it shows: unless another tab has signed in or out since, the
\* next request carries the token of the tab's own session, though it is read from the
\* storages, the shared one first.
NextRequestIsOwn ==
    \A t \in Tabs : auth[t].rehydratedFromStorage /\ t \notin foreign =>
        GetItem(t, "token") = auth[t].accessToken

\* A guarded page is not blank for ever: a tab that loads, loses its session or is on the
\* page of another role gets to a page that it shows.
BlankEnds == \A t \in Tabs : Blank(t) ~> ~Blank(t)

============================================================================
