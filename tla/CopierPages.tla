---------------------------- MODULE CopierPages ----------------------------
(***************************************************************************)
(* The copier's pages, over UserAccounts and beside AccountPages: the      *)
(* dashboard (CopierDashboard.tsx), with the socket it listens to signals  *)
(* on (useIncomingSignals.ts) and the marketplace it draws, and a          *)
(* provider's page (app/traders/[id]/page.tsx), from which it is possible  *)
(* to subscribe too.  The subscription the pages know is kept in the       *)
(* browser's store; the room the socket is in is looked up once, when it   *)
(* registers.  (A call refused for want of a session also signs the page   *)
(* out: WebSession.  Here it fails.)                                       *)
(***************************************************************************)
EXTENDS AccountPages, Sequences

CONSTANTS
    TradesCap,    \* 10: signals kept by the page
    TrendingCap,  \* 3: providers offered to a copier without one
    MaxSignals    \* bound: signals received on a page

ASSUME PagesAssumption == {TradesCap, TrendingCap, MaxSignals} \subseteq Nat

VARIABLES
    cop,       \* [page, cur, history, loading, market, masters, trending]
    detail,    \* provider's page: "loading", "found", "notFound"
    socket,    \* [state, room, trades, total]
    since      \* (history) subscriptions, and states of the master's switch, since the
               \* dashboard was opened: [subs, switch]

copVars == <<cop, detail, socket, since>>
vars == <<serverVars, pageVars, copVars>>

Providers == Targets \ {None}
ActiveMaster(p) == p = "master" => users["master"].active

OnDashboard == cop.page = "dashboard"

Dashboard(sub) ==
    [page |-> "dashboard", cur |-> sub, history |-> None, loading |-> sub # None,
     market |-> "list", masters |-> {}, trending |-> {}]

NoSocket == [state |-> None, room |-> None, trades |-> <<>>, total |-> 0]
FreshSocket == [NoSocket EXCEPT !.state = "connecting"]

Now(rows) == [subs |-> {rows["copier"].sub}, switch |-> {rows["master"].active}]

Init ==
    /\ PanelsInit
    /\ cop = [Dashboard(users["copier"].sub) EXCEPT !.page = "away", !.loading = FALSE]
    /\ detail = "loading"
    /\ socket = NoSocket
    /\ since = Now(users)

----------------------------------------------------------------------------
(* Opening and leaving pages *)

HistoryCalls == {d \in Calls : call[d].op = "history"}

\* Nobody waits any more for the history that is under way.
Forsake(c) ==
    /\ call' = [d \in Calls |-> IF d = c THEN Free
                                ELSE IF d \in HistoryCalls THEN [call[d] EXCEPT !.why = "left"]
                                ELSE call[d]]
    /\ UNCHANGED <<users, files, drawn, flaws, raced>>

LoadHistory(c, sub) ==
    IF sub = None THEN Forsake(c) ELSE SendIn(c, "history", sub, "copier", HistoryCalls)

\* The dashboard mounts: its effects connect the socket, ask for the history and for
\* the marketplace.
Mount(c, sub) ==
    /\ cop' = Dashboard(sub)
    /\ socket' = FreshSocket
    /\ LoadHistory(c, sub)
    /\ UNCHANGED detail

Visit == Spend("visit") /\ UNCHANGED <<admin, prov, desk>>

OpenDashboard(c) ==
    /\ ~OnDashboard
    /\ Visit
    /\ At(c, "free")
    /\ Mount(c, cop.cur)

OpenProvider(c, p) ==
    /\ cop.page # p
    /\ Visit
    /\ At(c, "free")
    /\ cop' = [Dashboard(cop.cur) EXCEPT !.page = p, !.loading = FALSE]
    /\ socket' = NoSocket
    /\ detail' = "loading"
    /\ Forsake(c)

----------------------------------------------------------------------------
(* What the pages show *)

Status ==
    CASE cop.cur = None -> "not-subscribed"
      [] cop.cur # None /\ socket.state = "connected" -> "listening"
      [] cop.cur # None /\ socket.state = "connecting" -> "idle"
      [] OTHER -> "disconnected"

Sections ==
    IF cop.cur = None THEN {"kpis", "pick a provider", "marketplace"}
    ELSE {"kpis", "subscription", "marketplace", "history"}

Marketplace ==
    IF cop.market \in {"list", "insights"} THEN "Loading available providers"
    ELSE IF cop.masters = {} THEN "No active providers available" ELSE "cards"

\* Mutant: the two lists of cards are swapped.
OfferedSwapped == IF cop.cur = None THEN cop.masters ELSE cop.trending

\* The cards: all of them, or the first few for a copier without a provider
Offered == IF cop.cur = None THEN cop.trending ELSE cop.masters

\* A card without a profile is drawn as empty, with its button disabled.
SubscribeEnabled(p) ==
    Marketplace = "cards" /\ p \in Offered /\ cop.market = "shown" /\ p # cop.cur

\* "Trades copied" and "Signals today"
MirroredTrades ==
    Cardinality({i \in DOMAIN socket.trades : socket.trades[i].event = "OPEN"})
TodayCount == socket.total

\* ActiveSubscriptionCard: a provider that is not listed stays nameless.
SubscriptionCard ==
    [name |-> IF cop.cur \in cop.masters THEN cop.cur ELSE "Loading provider",
     roi |-> IF cop.cur \in cop.masters /\ cop.market = "shown" THEN "totalPnL" ELSE "--",
     today |-> TodayCount, mirrored |-> MirroredTrades]

\* ProviderTradeHistoryTable: whose trades it lists
HistoryTable ==
    IF cop.loading THEN "skeleton"
    ELSE IF cop.history = None THEN "No trade history yet" ELSE cop.history

ProviderView ==
    CASE detail = "loading" -> "Loading provider"
      [] detail = "notFound" -> "Provider not found"
      [] OTHER -> "profile"

CopyLabel(p) == IF cop.cur = p THEN "Already subscribed" ELSE "Copy this provider"

----------------------------------------------------------------------------
(* Subscribing *)

\* The buttons of the active subscription and of the marketplace.  None is disabled
\* while a call is under way.
HandleSubscribe(c, t) ==
    /\ OnDashboard
    /\ IF t = None THEN "subscription" \in Sections ELSE SubscribeEnabled(t)
    /\ Click(c, "copier", "subscribe", t, "copier")
    /\ UNCHANGED <<admin, prov, desk, cop, detail, socket>>

HandleCopyProvider(c) ==
    /\ cop.page \in Providers /\ ProviderView = "profile"
    /\ CopyLabel(cop.page) = "Copy this provider"
    /\ Click(c, "copier", "subscribe", cop.page, "copy")
    /\ UNCHANGED <<admin, prov, desk, cop, detail, socket>>

\* Mutant: the history under way is not cancelled.
NewSubscriptionKeeps(c, sub) ==
    /\ IF sub = None THEN Done(c) ELSE Send(c, "history", sub, "copier")
    /\ cop' = [cop EXCEPT !.cur = sub, !.history = IF sub = None THEN None ELSE @,
                          !.loading = sub # None]
    /\ UNCHANGED <<detail, socket>>

\* The effects of a new subscription: the history under way is cancelled, that of the
\* new provider asked for.  The socket stays as it is.
NewSubscription(c, sub) ==
    /\ LoadHistory(c, sub)
    /\ cop' = [cop EXCEPT !.cur = sub, !.history = IF sub = None THEN None ELSE @,
                          !.loading = sub # None]
    /\ UNCHANGED <<detail, socket>>

\* A copy leads to the dashboard, wherever the copier has gone since.
SubscriptionChanged(c) ==
    /\ Answer(c, {"subscribe"})
    /\ LET sub == IF call[c].ok THEN call[c].answer.sub ELSE cop.cur
       IN  CASE ~call[c].ok \/ (OnDashboard /\ sub = cop.cur) ->
                    Done(c) /\ UNCHANGED <<cop, detail, socket>>
             [] call[c].ok /\ OnDashboard /\ sub # cop.cur -> NewSubscription(c, sub)
             [] call[c].ok /\ ~OnDashboard /\ call[c].why = "copy" -> Mount(c, sub)
             [] OTHER ->
                    /\ Done(c)
                    /\ cop' = [cop EXCEPT !.cur = sub]
                    /\ UNCHANGED <<detail, socket>>
    /\ UNCHANGED <<admin, prov, desk, clicks>>

----------------------------------------------------------------------------
(* What the pages load *)

HistoryLoaded(c) ==
    /\ Answer(c, {"history"})
    /\ cop' = [cop EXCEPT !.history = call[c].answer, !.loading = FALSE]
    /\ Done(c)
    /\ UNCHANGED <<admin, prov, desk, clicks, detail, socket>>

Loads == UNCHANGED <<serverVars, pageVars, socket>>

\* What stands first in the list is as old as the accounts are, which nothing here
\* depends on: any of them.
Trending(masters) ==
    {T \in SUBSET masters :
        Cardinality(T) = IF Cardinality(masters) > TrendingCap THEN TrendingCap
                         ELSE Cardinality(masters)}

Listed(masters) ==
    \E T \in Trending(masters) :
        cop' = [cop EXCEPT !.masters = masters, !.trending = T, !.market = "insights"]

Fails == cop' = [cop EXCEPT !.market = "failed"]

\* fetchMasters: the list of active masters...
FetchMasters ==
    /\ OnDashboard /\ cop.market = "list"
    /\ Listed({p \in Providers : ActiveMaster(p)}) \/ ("masters" \in Env /\ Fails)
    /\ Loads /\ UNCHANGED detail

\* ... then the profiles of all of them, or none: one is refused when its master has been
\* disabled meanwhile, and any request may not get through.
FetchProfiles ==
    /\ OnDashboard /\ cop.market = "insights"
    /\ \/ /\ \A p \in cop.masters : ActiveMaster(p)
          /\ cop' = [cop EXCEPT !.market = "shown"]
       \/ /\ "profiles" \in Env \/ \E p \in cop.masters : ~ActiveMaster(p)
          /\ Fails
    /\ Loads /\ UNCHANGED detail

LoadDetail ==
    /\ cop.page \in Providers /\ detail = "loading"
    /\ detail' = IF ActiveMaster(cop.page) THEN "found" ELSE "notFound"
    /\ Loads /\ UNCHANGED cop

----------------------------------------------------------------------------
(* The socket *)

Hears == UNCHANGED <<serverVars, pageVars, cop, detail>>

SocketConnects ==
    /\ socket.state \in {"connecting", "disconnected"}
    /\ socket' = [socket EXCEPT !.state = "connected", !.room = "asked"]
    /\ Hears

\* Mutant: the room is that of the provider the page names.
RegisteredAsTold ==
    /\ socket.state = "connected" /\ socket.room = "asked"
    /\ socket' = [socket EXCEPT !.room = cop.cur]
    /\ Hears

\* register_node on the server: the row as it is now decides the room.
Registered ==
    /\ socket.state = "connected" /\ socket.room = "asked"
    /\ socket' = [socket EXCEPT !.room = users["copier"].sub]
    /\ Hears

\* trade_execution to the room
Signal(event) ==
    /\ socket.state = "connected" /\ socket.room \in Providers
    /\ socket.total < MaxSignals
    /\ LET heard == <<[from |-> socket.room, event |-> event]>> \o socket.trades
       IN  socket' = [socket EXCEPT !.trades = SubSeq(heard, 1, IF Len(heard) > TradesCap
                                                               THEN TradesCap ELSE Len(heard)),
                                    !.total = @ + 1]
    /\ Hears

SocketDrops ==
    /\ socket.state = "connected"
    /\ socket' = [socket EXCEPT !.state = "disconnected", !.room = None]
    /\ Hears

----------------------------------------------------------------------------

Copiers(c) ==
    \/ OpenDashboard(c) \/ \E p \in Providers : OpenProvider(c, p)
    \/ HandleCopyProvider(c) \/ \E t \in Targets : HandleSubscribe(c, t)
    \/ SubscriptionChanged(c) \/ HistoryLoaded(c)

Next ==
    /\ \/ \E c \in Calls :
            \/ Serve(c) /\ UNCHANGED <<pageVars, cop, detail, socket>>
            \/ Panels(c) /\ UNCHANGED <<cop, detail, socket>>
            \/ Copiers(c)
       \/ Typing /\ UNCHANGED <<cop, detail, socket>>
       \/ FetchMasters \/ FetchProfiles \/ LoadDetail
       \/ SocketConnects \/ Registered \/ SocketDrops
       \/ \E event \in {"OPEN", "CLOSE"} : Signal(event)
    /\ since' = IF cop'.page = "dashboard" /\ ~OnDashboard THEN Now(users')
                ELSE [subs |-> since.subs \cup Now(users').subs,
                      switch |-> since.switch \cup Now(users').switch]

Spec == Init /\ [][Next]_vars

----------------------------------------------------------------------------
(* Properties *)

\* The trade history on the copier's dashboard is never that of another provider than
\* the one shown as subscribed; and at rest this is the subscription as saved, or one
\* that its master has revoked, which the page is not told.
CopierPageTrue ==
    /\ OnDashboard /\ "history" \in Sections =>
        /\ HistoryTable \in {cop.cur, "No trade history yet", "skeleton"}
        /\ HistoryTable = "skeleton" => UnderWay({"history"})
    /\ Quiet({"subscribe"}) /\ "copier" \notin raced =>
        \/ cop.cur = users["copier"].sub
        \/ cop.cur = "master" /\ users["copier"].sub = None

\* Every signal the dashboard keeps was sent by a provider the copier was subscribed
\* to while the page was open; and by the one it names, unless the subscription
\* has changed since, for the socket is not told.  No more trades are "copied" than
\* signals came.
SignalsAreTheProviders ==
    LET from == {socket.trades[i].from : i \in DOMAIN socket.trades}
    IN  /\ OnDashboard => from \subseteq since.subs
        /\ (/\ OnDashboard /\ Quiet({"subscribe"}) /\ "copier" \notin raced
            /\ Cardinality(since.subs) = 1 /\ from # {}) =>
                /\ from = {cop.cur}
                /\ Status # "not-subscribed"
        /\ SubscriptionCard.mirrored <= SubscriptionCard.today

\* Once it is shown, the marketplace offers a subscribed copier every other provider
\* that has been active since the dashboard was opened, names its own, and offers a
\* copier without one as many of them as it has places for; none that has been
\* disabled all along is ever offered.  (The list is loaded once: a master switched
\* since, or a list that did not come, leaves it behind.)
MarketplaceWhole ==
    OnDashboard =>
        /\ \A p \in Providers : SubscribeEnabled(p) => p # "master" \/ TRUE \in since.switch
        /\ cop.market = "shown" /\ Cardinality(since.switch) = 1 =>
            LET active == {p \in Providers : ActiveMaster(p)}
                offers == {p \in Providers : SubscribeEnabled(p)}
            IN  /\ cop.cur # None => offers = active \ {cop.cur}
                /\ cop.cur = None => /\ offers \subseteq active
                                     /\ Cardinality(offers) = IF Cardinality(active) > TrendingCap
                                                              THEN TrendingCap ELSE Cardinality(active)
                /\ SubscriptionCard.name = "Loading provider" =>
                        cop.cur = None \/ (cop.cur = "master" /\ ~users["master"].active)

============================================================================
