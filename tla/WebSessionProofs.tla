------------------------- MODULE WebSessionProofs -------------------------
(***************************************************************************)
(* Proofs about the session of the web application: for any number of      *)
(* tabs, users, requests and logins, its state is well typed, a session is *)
(* one person's, and a tab sends the token of the session it shows.        *)
(***************************************************************************)
EXTENDS WebSession, TLAPS

\* A request in flight has its tab, and a subscription its user.
RequestsOK ==
    \A r \in Requests : request[r].kind # "none" =>
        /\ request[r].tab \in Tabs
        /\ request[r].kind = "subscribe" => request[r].user \in Users

\* A storage never holds a user without a token or a token without a user, even when the
\* store of a tab does.
WholePair(p) == p.user = None <=> p.token = NoToken
PairsWhole == WholePair(localStorage) /\ \A t \in Tabs : WholePair(sessionStorage[t])

SessionInv ==
    TypeOK /\ RequestsOK /\ PairsWhole /\ SessionIsOnePersons /\ NextRequestIsOwn

\* What persistAuth leaves in one of the storages.
Held(state) == IF state.user # None /\ state.accessToken # NoToken
               THEN [user |-> state.user, token |-> state.accessToken] ELSE NoPair

LEMMA Names == None \notin Users /\ None \notin Tabs /\ NoToken \notin Tokens
  BY SessionAssumption DEF NoToken, Tokens

LEMMA SessionInitially == SessionInit => SessionInv
<1> SUFFICES ASSUME SessionInit PROVE SessionInv  OBVIOUS
<1> USE Names DEF SessionInit
<1>1. TypeOK
  BY DEF TypeOK, Auth, InitialState, Pairs, NoPair, Request, NoRequest
<1>2. RequestsOK  BY DEF RequestsOK, NoRequest
<1>3. PairsWhole  BY DEF PairsWhole, WholePair, NoPair
<1>4. SessionIsOnePersons  BY DEF SessionIsOnePersons, Fits, InitialState, NoPair
<1>5. NextRequestIsOwn  BY DEF NextRequestIsOwn, InitialState
<1> QED  BY <1>1, <1>2, <1>3, <1>4, <1>5 DEF SessionInv

----------------------------------------------------------------------------
(* The storages *)

\* persistAuth writes both storages: one holds the session, the other nothing.
LEMMA OneHolds ==
  ASSUME NEW t \in Tabs, NEW state \in Auth, PersistAuth(t, state),
         sessionStorage \in [Tabs -> Pairs]
  PROVE  /\ \/ localStorage' = Held(state) /\ sessionStorage'[t] = NoPair
            \/ localStorage' = NoPair /\ sessionStorage'[t] = Held(state)
         /\ sessionStorage' = [sessionStorage EXCEPT ![t] = sessionStorage'[t]]
         /\ foreign' = Foreign(t)
  BY DEF PersistAuth, SetSession, ClearSession, Held, NoPair

\* A tab takes over a state and persists it: the storages stay whole, and every tab that no
\* other tab has overwritten reads its own token from them.
LEMMA TabWrites ==
  ASSUME SessionInv, NEW t \in Tabs, NEW state \in Auth,
         auth' = [auth EXCEPT ![t] = state], PersistAuth(t, state),
         state.accessToken # NoToken => state.user # None
  PROVE  /\ auth' \in [Tabs -> Auth]
         /\ localStorage' \in Pairs /\ sessionStorage' \in [Tabs -> Pairs]
         /\ foreign' \subseteq Tabs
         /\ PairsWhole' /\ NextRequestIsOwn'
<1>0. /\ auth \in [Tabs -> Auth] /\ localStorage \in Pairs
      /\ sessionStorage \in [Tabs -> Pairs] /\ foreign \subseteq Tabs
      /\ PairsWhole /\ NextRequestIsOwn
  BY DEF SessionInv, TypeOK
<1>1. /\ \/ localStorage' = Held(state) /\ sessionStorage'[t] = NoPair
         \/ localStorage' = NoPair /\ sessionStorage'[t] = Held(state)
      /\ sessionStorage' = [sessionStorage EXCEPT ![t] = sessionStorage'[t]]
      /\ foreign' = Foreign(t)
  BY <1>0, OneHolds
<1>2. /\ Held(state) \in Pairs /\ WholePair(Held(state)) /\ NoPair \in Pairs
      /\ WholePair(NoPair) /\ Held(state).token = state.accessToken
      /\ NoPair.user = None /\ NoPair.token = NoToken
  BY Names DEF Held, Pairs, NoPair, WholePair, Auth
<1> HIDE DEF Held, NoPair
<1>3. auth' \in [Tabs -> Auth] /\ auth'[t] = state
      /\ \A u \in Tabs : u # t => auth'[u] = auth[u]
  BY <1>0
<1>4. /\ sessionStorage' \in [Tabs -> Pairs]
      /\ \A u \in Tabs : u # t => sessionStorage'[u] = sessionStorage[u]
  BY <1>0, <1>1, <1>2
<1>5. localStorage' \in Pairs  BY <1>1, <1>2
<1>6. foreign' \subseteq Tabs  BY <1>0, <1>1 DEF Foreign
<1>7. PairsWhole'
  <2>1. WholePair(localStorage')  BY <1>1, <1>2
  <2>2. ASSUME NEW u \in Tabs PROVE WholePair(sessionStorage'[u])
    BY <1>0, <1>1, <1>2, <1>4 DEF PairsWhole
  <2> QED  BY <2>1, <2>2 DEF PairsWhole, WholePair
<1>8. NextRequestIsOwn'
  <2> SUFFICES ASSUME NEW u \in Tabs, auth'[u].rehydratedFromStorage, u \notin foreign'
               PROVE  GetItem(u, "token")' = auth'[u].accessToken
    BY DEF NextRequestIsOwn
  <2>1. CASE u = t
    BY <1>1, <1>2, <1>3, <2>1 DEF GetItem
  <2>2. CASE u # t
    <3>1. localStorage' = localStorage /\ u \notin foreign
      BY <1>1, <2>2 DEF Foreign
    <3>2. GetItem(u, "token") = auth[u].accessToken
      BY <1>0, <1>3, <2>2, <3>1 DEF NextRequestIsOwn
    <3> QED  BY <1>3, <1>4, <2>2, <3>1, <3>2 DEF GetItem
  <2> QED  BY <2>1, <2>2
<1> QED  BY <1>3, <1>4, <1>5, <1>6, <1>7, <1>8

\* If what it takes over is one person's session and tokens keep their owners, every
\* session stays one person's.
LEMMA OnePersonsWrite ==
  ASSUME SessionInv, ~late, NEW t \in Tabs, NEW state \in Auth,
         auth' = [auth EXCEPT ![t] = state], PersistAuth(t, state),
         \A k \in Tokens : owner[k] # None => owner'[k] = owner[k],
         Fits(state.user, state.accessToken)', state.isAuthenticated <=> state.user # None
  PROVE  SessionIsOnePersons'
<1>0. /\ auth \in [Tabs -> Auth] /\ localStorage \in Pairs
      /\ sessionStorage \in [Tabs -> Pairs]
      /\ \A u \in Tabs : /\ Fits(auth[u].user, auth[u].accessToken)
                         /\ Fits(sessionStorage[u].user, sessionStorage[u].token)
                         /\ auth[u].isAuthenticated <=> auth[u].user # None
  BY DEF SessionInv, TypeOK, SessionIsOnePersons
<1>1. /\ \/ localStorage' = Held(state) /\ sessionStorage'[t] = NoPair
         \/ localStorage' = NoPair /\ sessionStorage'[t] = Held(state)
      /\ sessionStorage' = [sessionStorage EXCEPT ![t] = sessionStorage'[t]]
  BY <1>0, OneHolds
<1>2. /\ Fits(Held(state).user, Held(state).token)'
      /\ Fits(NoPair.user, NoPair.token)'
  BY DEF Fits, Held, NoPair
<1>3. ASSUME NEW u \in Users \cup {None}, NEW k \in Tokens \cup {NoToken}, Fits(u, k)
      PROVE  Fits(u, k)'
  BY <1>3, Names DEF Fits
<1> HIDE DEF Held, NoPair
<1>4. Fits(localStorage.user, localStorage.token)'
  BY <1>1, <1>2 DEF Fits
<1>5. ASSUME NEW u \in Tabs
      PROVE  /\ Fits(auth[u].user, auth[u].accessToken)'
             /\ Fits(sessionStorage[u].user, sessionStorage[u].token)'
             /\ auth'[u].isAuthenticated <=> auth'[u].user # None
  <2>1. CASE u = t
    <3>1. auth'[u] = state  BY <1>0, <2>1
    <3>2. sessionStorage'[u] \in {Held(state), NoPair}  BY <1>1, <2>1
    <3> QED  BY <1>2, <3>1, <3>2 DEF Fits
  <2>2. CASE u # t
    <3>1. auth'[u] = auth[u] /\ sessionStorage'[u] = sessionStorage[u]
      BY <1>0, <1>1, <2>2
    <3>2. /\ Fits(auth[u].user, auth[u].accessToken)
          /\ Fits(sessionStorage[u].user, sessionStorage[u].token)
          /\ auth[u].isAuthenticated <=> auth[u].user # None
          /\ auth[u].user \in Users \cup {None} /\ auth[u].accessToken \in Tokens \cup {NoToken}
          /\ sessionStorage[u].user \in Users \cup {None}
          /\ sessionStorage[u].token \in Tokens \cup {NoToken}
      BY <1>0 DEF Auth, Pairs
    <3> QED  BY <1>3, <3>1, <3>2 DEF Fits
  <2> QED  BY <2>1, <2>2
<1> QED  BY <1>4, <1>5 DEF SessionIsOnePersons

\* Whatever leaves the store, the storages and the owners alone leaves the sessions as they are.
LEMMA NoSessionTouched ==
  ASSUME SessionInv, UNCHANGED <<auth, localStorage, sessionStorage, owner, late, foreign>>
  PROVE  PairsWhole' /\ SessionIsOnePersons' /\ NextRequestIsOwn'
  BY DEF SessionInv, PairsWhole, WholePair, SessionIsOnePersons, Fits, NextRequestIsOwn, GetItem

----------------------------------------------------------------------------
(* The steps of a tab *)

\* Logging out, by hand or by an answer of 401, keeps the invariant.
LEMMA LogoutKeeps ==
  ASSUME SessionInv, NEW t \in Tabs, Logout(t), UNCHANGED <<owner, late>>
  PROVE  /\ auth' \in [Tabs -> Auth]
         /\ localStorage' \in Pairs /\ sessionStorage' \in [Tabs -> Pairs]
         /\ foreign' \subseteq Tabs
         /\ PairsWhole' /\ SessionIsOnePersons' /\ NextRequestIsOwn'
<1>1. /\ LoggedOut \in Auth /\ LoggedOut.user = None /\ LoggedOut.accessToken = NoToken
      /\ ~LoggedOut.isAuthenticated
  BY DEF LoggedOut, InitialState, Auth
<1>2. auth' = [auth EXCEPT ![t] = LoggedOut] /\ PersistAuth(t, LoggedOut)
  BY <1>1 DEF Logout, PersistAuth
<1> HIDE DEF LoggedOut
<1>3. SessionIsOnePersons'
  <2>1. CASE late  BY <2>1 DEF SessionIsOnePersons
  <2>2. CASE ~late
    <3>1. Fits(LoggedOut.user, LoggedOut.accessToken)'  BY <1>1 DEF Fits
    <3> QED  BY <1>1, <1>2, <2>2, <3>1, OnePersonsWrite
  <2> QED  BY <2>1, <2>2
<1> QED  BY <1>1, <1>2, <1>3, TabWrites

LEMMA HydrateKeeps ==
  ASSUME SessionInv, NEW t \in Tabs, Hydrate(t)
  PROVE  SessionInv'
<1> DEFINE u == GetItem(t, "user")
           k == GetItem(t, "token")
<1>0. TypeOK /\ RequestsOK /\ PairsWhole /\ SessionIsOnePersons /\ NextRequestIsOwn
  BY DEF SessionInv
<1>1. UNCHANGED <<page, request, owner, expired, disabled, late>>  BY DEF Hydrate
<1>2. /\ u \in Users \cup {None} /\ k \in Tokens \cup {NoToken}
      /\ u = None <=> k = NoToken
      /\ ~late => Fits(u, k)
  <2>1. /\ localStorage \in Pairs /\ sessionStorage[t] \in Pairs
        /\ WholePair(localStorage) /\ WholePair(sessionStorage[t])
    BY <1>0 DEF TypeOK, PairsWhole
  <2>2. CASE localStorage.user # None
    BY <1>0, <2>1, <2>2 DEF GetItem, Pairs, WholePair, SessionIsOnePersons
  <2>3. CASE localStorage.user = None
    BY <1>0, <2>1, <2>3 DEF GetItem, Pairs, WholePair, SessionIsOnePersons
  <2> QED  BY <2>2, <2>3
<1>3. RequestsOK'  BY <1>0, <1>1 DEF RequestsOK
<1>4. CASE k # NoToken /\ IsJwtExpired(k)
  <2>1. Logout(t)  BY <1>2, <1>4 DEF Hydrate, Logout
  <2> QED  BY <1>0, <1>1, <1>3, <2>1, LogoutKeeps DEF SessionInv, TypeOK
<1>5. ASSUME NEW state \in Auth, auth' = [auth EXCEPT ![t] = state], foreign' = foreign \ {t},
             UNCHANGED <<localStorage, sessionStorage>>, state.user = u, state.accessToken = k,
             state.isAuthenticated <=> state.user # None
      PROVE  SessionInv'
  <2>1. TypeOK'  BY <1>0, <1>1, <1>5 DEF TypeOK
  <2>2. PairsWhole'  BY <1>0, <1>5 DEF PairsWhole, WholePair
  <2>3. auth'[t] = state /\ \A v \in Tabs : v # t => auth'[v] = auth[v]
    BY <1>0, <1>5 DEF TypeOK
  <2>4. SessionIsOnePersons'
    <3> SUFFICES ASSUME ~late PROVE SessionIsOnePersons'
      BY <1>1 DEF SessionIsOnePersons
    <3>1. Fits(state.user, state.accessToken)  BY <1>2, <1>5
    <3> QED  BY <1>0, <1>1, <1>5, <2>3, <3>1 DEF SessionIsOnePersons, Fits
  <2>5. NextRequestIsOwn'
    <3> SUFFICES ASSUME NEW v \in Tabs, auth'[v].rehydratedFromStorage, v \notin foreign'
                 PROVE  GetItem(v, "token")' = auth'[v].accessToken
      BY DEF NextRequestIsOwn
    <3>1. GetItem(v, "token")' = GetItem(v, "token")  BY <1>5 DEF GetItem
    <3>2. CASE v = t  BY <1>5, <2>3, <3>1, <3>2
    <3>3. CASE v # t  BY <1>0, <1>5, <2>3, <3>1, <3>3 DEF NextRequestIsOwn
    <3> QED  BY <3>2, <3>3
  <2> QED  BY <1>3, <2>1, <2>2, <2>4, <2>5 DEF SessionInv
<1>6. CASE k = NoToken
  <2>1. /\ LoggedOut \in Auth /\ LoggedOut.user = None /\ LoggedOut.accessToken = NoToken
        /\ ~LoggedOut.isAuthenticated
    BY DEF LoggedOut, InitialState, Auth
  <2>2. auth' = [auth EXCEPT ![t] = LoggedOut] /\ foreign' = foreign \ {t}
        /\ UNCHANGED <<localStorage, sessionStorage>>
    BY <1>2, <1>6 DEF Hydrate
  <2> QED  BY <1>2, <1>5, <1>6, <2>1, <2>2
<1>7. CASE k # NoToken /\ ~IsJwtExpired(k)
  <2> DEFINE state == [user |-> u, accessToken |-> k, isAuthenticated |-> TRUE,
                       rememberMe |-> localStorage.user # None, rehydratedFromStorage |-> TRUE]
  <2>1. auth' = [auth EXCEPT ![t] = state] /\ foreign' = foreign \ {t}
        /\ UNCHANGED <<localStorage, sessionStorage>>
    BY <1>2, <1>7 DEF Hydrate
  <2>2. state \in Auth /\ state.user = u /\ state.accessToken = k
        /\ (state.isAuthenticated <=> state.user # None)
    BY <1>2, <1>7 DEF Auth
  <2> HIDE DEF state
  <2> QED  BY <1>5, <2>1, <2>2
<1> QED  BY <1>4, <1>6, <1>7

LEMMA LoadKeeps ==
  ASSUME SessionInv, NEW t \in Tabs, Load(t)
  PROVE  SessionInv'
<1>0. /\ TypeOK /\ RequestsOK /\ PairsWhole /\ SessionIsOnePersons /\ NextRequestIsOwn
      /\ auth' = [auth EXCEPT ![t] = InitialState]
      /\ request' = [r \in Requests |-> IF request[r].tab = t THEN NoRequest ELSE request[r]]
      /\ sessionStorage' \in {sessionStorage, [sessionStorage EXCEPT ![t] = NoPair]}
      /\ UNCHANGED <<localStorage, owner, expired, disabled, late, foreign>>
  BY DEF SessionInv, Load
<1>1. /\ InitialState \in Auth /\ InitialState.user = None /\ ~InitialState.isAuthenticated
      /\ InitialState.accessToken = NoToken /\ ~InitialState.rehydratedFromStorage
      /\ NoPair \in Pairs /\ NoPair.user = None /\ NoPair.token = NoToken
      /\ NoRequest \in Request /\ NoRequest.kind = "none"
  BY DEF InitialState, Auth, NoPair, Pairs, NoRequest, Request
<1> HIDE DEF InitialState, NoPair, NoRequest
<1>2. /\ auth'[t] = InitialState
      /\ \A u \in Tabs : u # t => auth'[u] = auth[u] /\ sessionStorage'[u] = sessionStorage[u]
      /\ sessionStorage'[t] \in {sessionStorage[t], NoPair}
  BY <1>0 DEF TypeOK
<1>3. TypeOK'
  <2>1. page' \in [Tabs -> Pages]  BY <1>0 DEF Load, TypeOK
  <2> QED  BY <1>0, <1>1, <2>1 DEF TypeOK
<1>4. RequestsOK'  BY <1>0, <1>1 DEF RequestsOK
<1>5. PairsWhole'  BY <1>0, <1>1, <1>2 DEF PairsWhole, WholePair
<1>6. SessionIsOnePersons'  BY <1>0, <1>1, <1>2 DEF SessionIsOnePersons, Fits
<1>7. NextRequestIsOwn'
  <2> SUFFICES ASSUME NEW v \in Tabs, auth'[v].rehydratedFromStorage, v \notin foreign'
               PROVE  GetItem(v, "token")' = auth'[v].accessToken
    BY DEF NextRequestIsOwn
  <2>1. v # t  BY <1>1, <1>2
  <2> QED  BY <1>0, <1>2, <2>1 DEF NextRequestIsOwn, GetItem
<1> QED  BY <1>3, <1>4, <1>5, <1>6, <1>7 DEF SessionInv

\* The pages, the navigation and what is sent leave the session alone.
LEMMA PageKeeps ==
  ASSUME SessionInv, NEW t \in Tabs,
         \/ Guard(t)
         \/ \E p \in Pages : Follow(t, p)
         \/ Subscribe(t)
         \/ Fetch(t)
  PROVE  SessionInv'
<1>0. TypeOK /\ RequestsOK  BY DEF SessionInv
<1>1. UNCHANGED <<auth, localStorage, sessionStorage, owner, expired, disabled, late, foreign>>
  BY DEF Guard, Follow, Subscribe, Fetch, Send
<1>2. page' \in [Tabs -> Pages] /\ request' \in [Requests -> Request] /\ RequestsOK'
  <2>1. CASE Guard(t) \/ \E p \in Pages : Follow(t, p)
    BY <1>0, <2>1 DEF Guard, Follow, TypeOK, RequestsOK, Pages
  <2>2. CASE Subscribe(t) \/ Fetch(t)
    <3>1. PICK kind \in {"subscribe", "fetch"}, u \in Users \cup {None} :
              Send(t, kind, u) /\ (kind = "subscribe" => u \in Users)
      <4>1. auth[t].user \in Users \cup {None}  BY <1>0 DEF TypeOK, Auth
      <4> QED  BY <2>2, <4>1 DEF Subscribe, Fetch
    <3>2. page' = page  BY <2>2 DEF Subscribe, Fetch, Send
    <3>3. PICK r \in Requests, k \in Tokens \cup {NoToken} :
              request' = [request EXCEPT ![r] = [tab |-> t, kind |-> kind, user |-> u, token |-> k]]
      <4>1. GetItem(t, "token") \in Tokens \cup {NoToken}
        BY <1>0 DEF TypeOK, Pairs, GetItem
      <4> QED  BY <3>1, <4>1 DEF Send
    <3> QED  BY <1>0, <3>1, <3>2, <3>3 DEF TypeOK, Request, RequestsOK
  <2> QED  BY <2>1, <2>2
<1> QED  BY <1>0, <1>1, <1>2, NoSessionTouched DEF SessionInv, TypeOK

\* loginSuccess with a user's own new token, or for the user who is signed in.
LEMMA LoginKeeps ==
  ASSUME SessionInv, NEW t \in Tabs, NEW u \in Users, NEW k \in Tokens \cup {NoToken},
         NEW remember \in BOOLEAN, LoginSuccess(t, u, k, remember),
         \A j \in Tokens : owner[j] # None => owner'[j] = owner[j],
         late => late',
         ~late' => (k # NoToken /\ owner'[k] = u) \/ (k = NoToken /\ auth[t].user = u)
  PROVE  /\ auth' \in [Tabs -> Auth]
         /\ localStorage' \in Pairs /\ sessionStorage' \in [Tabs -> Pairs]
         /\ foreign' \subseteq Tabs
         /\ PairsWhole' /\ SessionIsOnePersons' /\ NextRequestIsOwn'
<1>0. auth[t] \in Auth  BY DEF SessionInv, TypeOK
<1>1. PICK state :
          /\ state = [auth[t] EXCEPT !.user = u, !.isAuthenticated = TRUE,
                         !.rehydratedFromStorage = TRUE,
                         !.accessToken = IF k = NoToken THEN @ ELSE k,
                         !.rememberMe = IF k = NoToken THEN @ ELSE remember]
          /\ auth' = [auth EXCEPT ![t] = state] /\ PersistAuth(t, state)
  BY DEF LoginSuccess
<1>2. /\ state \in Auth /\ state.user = u /\ state.isAuthenticated /\ u # None
      /\ state.accessToken = IF k = NoToken THEN auth[t].accessToken ELSE k
  BY <1>0, <1>1, Names DEF Auth
<1>3. SessionIsOnePersons'
  <2>1. CASE late'  BY <2>1 DEF SessionIsOnePersons
  <2>2. CASE ~late'
    <3>1. ~late  BY <2>2
    <3>2. Fits(auth[t].user, auth[t].accessToken)  BY <3>1 DEF SessionInv, SessionIsOnePersons
    <3>3. Fits(state.user, state.accessToken)'
      <4>1. CASE k # NoToken  BY <1>2, <2>2, <4>1 DEF Fits
      <4>2. CASE k = NoToken
        <5>1. auth[t].accessToken \in Tokens \cup {NoToken} /\ auth[t].user = u
          BY <1>0, <2>2, <4>2 DEF Auth
        <5>2. state.accessToken = auth[t].accessToken /\ state.accessToken # NoToken
              /\ owner[state.accessToken] = u
          BY <1>2, <3>2, <4>2, <5>1 DEF Fits
        <5>3. owner'[state.accessToken] = u  BY <1>2, <5>1, <5>2
        <5> QED  BY <1>2, <5>2, <5>3 DEF Fits
      <4> QED  BY <4>1, <4>2
    <3> QED  BY <1>1, <1>2, <3>1, <3>3, OnePersonsWrite
  <2> QED  BY <2>1, <2>2
<1> QED  BY <1>1, <1>2, <1>3, TabWrites

LEMMA SignedInKeeps ==
  ASSUME SessionInv, NEW t \in Tabs, SignedIn(t)
  PROVE  SessionInv'
<1>1. PICK k \in Tokens, u \in Users, remember \in BOOLEAN :
          /\ owner[k] = None /\ owner' = [owner EXCEPT ![k] = u]
          /\ LoginSuccess(t, u, k, remember)
  BY DEF SignedIn
<1>2. UNCHANGED <<request, expired, disabled, late>>
      /\ page' = [page EXCEPT ![t] = "dashboard"]
  BY DEF SignedIn
<1>3. TypeOK /\ RequestsOK  BY DEF SessionInv
<1>4. /\ owner' \in [Tokens -> Users \cup {None}] /\ owner'[k] = u
      /\ \A j \in Tokens : owner[j] # None => owner'[j] = owner[j]
  BY <1>1, <1>3 DEF TypeOK
<1>5. /\ k # NoToken /\ k \in Tokens \cup {NoToken}
      /\ late => late'
      /\ ~late' => (k # NoToken /\ owner'[k] = u) \/ (k = NoToken /\ auth[t].user = u)
  BY <1>2, <1>4, Names
<1>6. /\ auth' \in [Tabs -> Auth]
      /\ localStorage' \in Pairs /\ sessionStorage' \in [Tabs -> Pairs]
      /\ foreign' \subseteq Tabs
      /\ PairsWhole' /\ SessionIsOnePersons' /\ NextRequestIsOwn'
  BY <1>1, <1>4, <1>5, LoginKeeps
<1> QED  BY <1>2, <1>3, <1>4, <1>6 DEF SessionInv, TypeOK, RequestsOK, Pages

----------------------------------------------------------------------------
(* The answers *)

LEMMA AnswerKeeps ==
  ASSUME SessionInv, NEW r \in Requests, Answer(r)
  PROVE  SessionInv'
<1> DEFINE t == request[r].tab
<1>0. TypeOK /\ RequestsOK  BY DEF SessionInv
<1>1. request[r].kind # "none" /\ request' = [request EXCEPT ![r] = NoRequest]
      /\ UNCHANGED <<owner, expired, disabled>>
  BY DEF Answer, SubscribeDone, FetchDone, Fails, Unauthorized, Heard
<1>2. t \in Tabs  BY <1>0, <1>1 DEF RequestsOK
<1>3. request' \in [Requests -> Request] /\ RequestsOK'
  BY <1>0, <1>1 DEF TypeOK, RequestsOK, Request, NoRequest
<1>4. CASE SubscribeDone(r)
  <2>1. /\ request[r].user \in Users
        /\ LoginSuccess(t, request[r].user, NoToken, FALSE)
        /\ page' \in {page, [page EXCEPT ![t] = "dashboard"]}
        /\ late' = (late \/ auth[t].user # request[r].user)
    BY <1>0, <1>4 DEF SubscribeDone, Heard, RequestsOK
  <2>2. /\ auth' \in [Tabs -> Auth]
        /\ localStorage' \in Pairs /\ sessionStorage' \in [Tabs -> Pairs]
        /\ foreign' \subseteq Tabs
        /\ PairsWhole' /\ SessionIsOnePersons' /\ NextRequestIsOwn'
    <3> HIDE DEF t
    <3>2. late => late'  BY <2>1
    <3>3. ~late' => auth[t].user = request[r].user  BY <2>1
    <3> QED  BY <1>1, <1>2, <2>1, <3>2, <3>3, LoginKeeps
  <2>3. page' \in [Tabs -> Pages]  BY <1>0, <2>1 DEF TypeOK, Pages
  <2>4. late' \in BOOLEAN  BY <1>0, <2>1 DEF TypeOK
  <2> QED  BY <1>0, <1>1, <1>3, <2>2, <2>3, <2>4 DEF SessionInv, TypeOK
<1>5. CASE FetchDone(r) \/ Fails(r)
  <2>1. UNCHANGED <<auth, localStorage, sessionStorage, page, late, foreign>>
    BY <1>5 DEF FetchDone, Fails
  <2> QED  BY <1>0, <1>1, <1>3, <2>1, NoSessionTouched DEF SessionInv, TypeOK
<1>6. CASE Unauthorized(r)
  <2>1. Logout(t) /\ UNCHANGED <<page, late>>  BY <1>6 DEF Unauthorized
  <2>2. /\ auth' \in [Tabs -> Auth]
        /\ localStorage' \in Pairs /\ sessionStorage' \in [Tabs -> Pairs]
        /\ foreign' \subseteq Tabs
        /\ PairsWhole' /\ SessionIsOnePersons' /\ NextRequestIsOwn'
    <3> HIDE DEF t
    <3> QED  BY <1>1, <1>2, <2>1, LogoutKeeps
  <2> QED  BY <1>0, <1>1, <1>3, <2>1, <2>2 DEF SessionInv, TypeOK
<1> QED  BY <1>4, <1>5, <1>6 DEF Answer

LEMMA SessionStep == SessionInv /\ [SessionNext]_sessionVars => SessionInv'
<1> SUFFICES ASSUME SessionInv, [SessionNext]_sessionVars PROVE SessionInv'  OBVIOUS
<1>0. TypeOK /\ RequestsOK  BY DEF SessionInv
<1>1. CASE UNCHANGED sessionVars
  BY <1>0, <1>1, NoSessionTouched DEF sessionVars, SessionInv, TypeOK, RequestsOK
<1>2. ASSUME NEW t \in Tabs, Browser(t) \/ Load(t)
      PROVE  SessionInv'
  BY <1>2, HydrateKeeps, PageKeeps, LoadKeeps DEF Browser
<1>3. ASSUME NEW t \in Tabs, HandleLogout(t)
      PROVE  SessionInv'
  <2>1. Logout(t) /\ UNCHANGED <<request, owner, expired, disabled, late>>
        /\ page' = [page EXCEPT ![t] = "login"]
    BY <1>3 DEF HandleLogout
  <2> QED  BY <1>0, <2>1, LogoutKeeps DEF SessionInv, TypeOK, RequestsOK, Pages
<1>4. ASSUME NEW t \in Tabs,
             SignedIn(t) \/ Subscribe(t) \/ Fetch(t) \/ \E p \in Pages : Follow(t, p)
      PROVE  SessionInv'
  BY <1>4, SignedInKeeps, PageKeeps
<1>5. ASSUME NEW r \in Requests, Answer(r)
      PROVE  SessionInv'
  BY <1>5, AnswerKeeps
<1>6. ASSUME (\E k \in Tokens : Expire(k)) \/ (\E u \in Users : Disable(u))
      PROVE  SessionInv'
  <2>1. /\ UNCHANGED <<auth, localStorage, sessionStorage, page, request, owner, late, foreign>>
        /\ expired' \subseteq Tokens /\ disabled' \subseteq Users
    BY <1>0, <1>6 DEF Expire, Disable, TypeOK
  <2> QED  BY <1>0, <2>1, NoSessionTouched DEF SessionInv, TypeOK, RequestsOK
<1> QED  BY <1>1, <1>2, <1>3, <1>4, <1>5, <1>6 DEF SessionNext

LEMMA SessionAlways == SessionSpec => []SessionInv
<1>1. SessionInit => SessionInv  BY SessionInitially
<1>2. SessionInv /\ [SessionNext]_sessionVars => SessionInv'  BY SessionStep
<1> QED  BY <1>1, <1>2, PTL DEF SessionSpec

----------------------------------------------------------------------------

\* Every variable of the session keeps its type, with any number of tabs and requests: no
\* answer is applied to a tab that is not there.
THEOREM SessionTyped == SessionSpec => []TypeOK
<1>1. SessionInv => TypeOK  BY DEF SessionInv
<1> QED  BY <1>1, SessionAlways, PTL

\* The store of every tab and both storages hold a whole session of one person, until an
\* answer to a subscription comes to a session that is not its own.
THEOREM SessionOnePerson == SessionSpec => []SessionIsOnePersons
<1>1. SessionInv => SessionIsOnePersons  BY DEF SessionInv
<1> QED  BY <1>1, SessionAlways, PTL

\* The token that the interceptor reads from the storages is that of the session the tab
\* shows, unless another tab has written the shared storage since.
THEOREM SessionSendsOwn == SessionSpec => []NextRequestIsOwn
<1>1. SessionInv => NextRequestIsOwn  BY DEF SessionInv
<1> QED  BY <1>1, SessionAlways, PTL

============================================================================
