-------------------------- MODULE MasterInsights --------------------------
(***************************************************************************)
(* How a page comes by a master's figures.  The server reads the trade     *)
(* rows in one query after another while the gateway goes on writing them, *)
(* so that the parts of one answer may be of different moments:            *)
(* getMasterProfile, getMasterDashboard, getTopMasters and                 *)
(* getMasterHistory.  Three pages draw several answers together: the       *)
(* provider's page (profile and history), the showcase of the home page    *)
(* (top masters and the list of masters) and the marketplace (the list,    *)
(* then a profile for each).  One page at a time; one master whose rows are *)
(* followed, among others of whom the number of trades is known.           *)
(***************************************************************************)
EXTENDS ProviderViews

CONSTANTS
    Starts,        \* what a run may start with: [rows, text, others], as the variables
    Pnls, Hours,   \* of the trades closed during the run
    ClosedCap,     \* MASTER_ANALYTICS_CLOSED_CAP, 2000
    HistoryCap,    \* 50: rows of getMasterHistory
    TopCap,        \* 3: masters of getTopMasters, cards of the showcase
    MaxWrites      \* bound: writes to the tables

ASSUME CapsAssumption ==
    /\ ClosedCap \in Nat \ {0} /\ ChartCap \in Nat /\ RecentCap \in Nat
    /\ HistoryCap \in Nat /\ TopCap \in Nat \ {0} /\ SparklinePoints \in Nat \ {0, 1}

OpenRow == [status |-> "OPEN", pnl |-> 0, at |-> 0]
ClosedRow(p, t) == [status |-> "CLOSED", pnl |-> p, at |-> t]
Rows == {OpenRow} \cup [status : {"CLOSED"}, pnl : Int, at : Nat]

ASSUME RowsAssumption ==
    /\ \A start \in Starts :
        start.rows \in Seq(Rows) /\ start.others \in [newer : Seq(Nat), older : Seq(Nat)]
    /\ Pnls \subseteq Int /\ Hours \subseteq Nat

\* What an answer may hold
Risks == [maxDrawdown : Nat, avgPerDay : Nat, losingStreak : Nat, bestDay : Int]
Analytics == [riskMetrics : Risks, sparkline : Seq(Int), activeFrom : 0 .. 20]
Profiles ==
    [totalTrades : Nat, closedTrades : Nat, winRate : Nat, totalPnL : Int, avgVolume : Nat,
     bio : {start.text.bio : start \in Starts},
     platform : {start.text.platform : start \in Starts},
     strategy : {start.text.strategy : start \in Starts},
     risk : {start.text.risk : start \in Starts}, isLive : BOOLEAN,
     riskMetrics : Risks \cup {None}, sparkline : Seq(Int) \cup {None},
     activeFrom : (0 .. 20) \cup {None}]

ASSUME NoneAssumption ==
    None \notin Int \cup Seq(Int) \cup Risks \cup Analytics \cup Profiles
                \cup [metrics : Risks, tone : {"mint", "danger"}]

VARIABLES
    trades,     \* this master's rows, in the order of creation
    text,       \* the master's profile: [bio, platform, strategy, risk]
    active,     \* the master is not disabled
    others,     \* the trades of each other active master, of those whose account is newer
                \* and of those whose is older, the newest account first
    call,       \* the page's call: [kind, stage, read]
    moved,      \* (history) a table was written since the call began
    writes

vars == <<trades, text, active, others, call, moved, writes>>

OtherMasters == {start.others : start \in Starts}

Kinds == {"profile", "dashboard", "top", "market", "detail"}
Init ==
    /\ \E start \in Starts :
        trades = start.rows /\ text = start.text /\ others = start.others
    /\ active \in BOOLEAN
    /\ call = [kind |-> "none", stage |-> "idle", read |-> <<>>]
    /\ moved = FALSE
    /\ writes = 0

----------------------------------------------------------------------------
(* Meanwhile: the gateway writes trades, the administrator switches accounts. *)

Write ==
    /\ writes < MaxWrites /\ writes' = writes + 1
    /\ moved' = TRUE
    /\ UNCHANGED <<text, call>>

OpenTrade ==
    /\ Write
    /\ trades' = Append(trades, OpenRow)
    /\ UNCHANGED <<active, others>>

\* Closing times come from one clock.
CloseTrade(i) ==
    /\ Write
    /\ trades[i].status = "OPEN"
    /\ \E p \in Pnls, t \in Hours :
        /\ \A j \in DOMAIN trades : trades[j].at <= t
        /\ trades' = [trades EXCEPT ![i] = ClosedRow(p, t)]
    /\ UNCHANGED <<active, others>>

SwitchMaster ==
    /\ Write
    /\ active' = ~active
    /\ UNCHANGED <<trades, others>>

\* Others trade, sign up, are disabled or enabled.
OthersChange ==
    /\ Write
    /\ others' \in OtherMasters
    /\ UNCHANGED <<trades, active>>

----------------------------------------------------------------------------
(* The server: one action per query of a call. *)

At(stage) == call.stage = stage

\* The answer holds this master's profile.
HasFigures == "analytics" \in DOMAIN call.read

\* An answer with the fields of one more query
With(read, fields) ==
    [f \in DOMAIN read \cup DOMAIN fields |-> IF f \in DOMAIN fields THEN fields[f] ELSE read[f]]

Read(next, fields) ==
    /\ call' = [call EXCEPT !.stage = next, !.read = With(@, fields)]
    /\ UNCHANGED <<trades, text, active, others, moved, writes>>

Begin(kind) ==
    /\ At("idle")
    /\ call' = [kind |-> kind, stage |-> IF kind \in {"top", "market"} THEN "list" ELSE "find",
                read |-> [side |-> None]]
    /\ moved' = FALSE
    /\ UNCHANGED <<trades, text, active, others, writes>>

\* Mutant: disabled masters are listed too.
ListMastersAll ==
    /\ At("list")
    /\ Read("find", [listed |-> TRUE, others |-> others])

\* getTopMasters on the server, loadMasters in the browser: the active masters, then
\* their profiles
ListMasters ==
    /\ At("list")
    /\ Read(CASE active -> "find"
              [] ~active /\ call.kind = "top" -> "rank"
              [] OTHER -> "done", [listed |-> active, others |-> others])

\* getMasterProfile.  The marketplace draws a card of defaults for a profile it does
\* not get; elsewhere the whole answer fails.
FindMaster ==
    /\ At("find")
    /\ Read(CASE active -> "countAll"
              [] ~active /\ call.kind = "market" -> "done"
              [] OTHER -> "notFound", <<>>)

CountAll ==
    /\ At("countAll")
    /\ Read("countClosed", [totalTrades |-> Len(trades)])

\* Mutant: the count forgets the status.
CountClosedAll ==
    /\ At("countClosed")
    /\ Read("closedRows", [closedTrades |-> Len(trades)])

CountClosed ==
    /\ At("countClosed")
    /\ Read("closedRows", [closedTrades |-> Len(Closed(trades))])

ReadClosed ==
    /\ At("closedRows")
    /\ Read("allRows", [winningTrades |-> Wins(Closed(trades)),
                        totalPnL |-> PnlOf(Closed(trades))])

\* Every trade is of one lot.
ReadVolumes ==
    /\ At("allRows")
    /\ Read("newest", [totalVolume |-> Len(trades)])

\* The newest rows by closing time, in any order where times are equal, turned
\* oldest first
OldestFirst(rows) ==
    {[i \in DOMAIN rows |-> rows[p[i]]] : p \in
        {q \in Injection(DOMAIN rows, DOMAIN rows) :
            \A i \in 1 .. Len(rows) - 1 : rows[q[i]].at <= rows[q[i + 1]].at}}

NewestOf(rows) ==
    {SubSeq(s, Len(s) - Len(First(s, ClosedCap)) + 1, Len(s)) : s \in OldestFirst(rows)}

ReadNewest ==
    /\ At("newest")
    /\ \E rows \in NewestOf(Closed(trades)) :
        Read(CASE call.kind = "dashboard" -> "recent"
               [] call.kind = "top" -> "openTrades"
               [] OTHER -> "done",
             [analytics |-> BuildAnalytics(rows)])

\* getMasterDashboard
ReadRecent ==
    /\ At("recent")
    /\ Read("openTrades", [recentTrades |-> First(Reverse(trades), RecentCap)])

\* getMasterDashboard, getTopMasters
CountOpen ==
    /\ At("openTrades")
    /\ Read(IF call.kind = "top" THEN "rank" ELSE "done",
            [openTrades |-> Len(trades) - Len(Closed(trades))])

\* What ranks a master, for a number of trades and for several
Ranking(own, total) == [own |-> own, trades |-> total]
Theirs(totals) == [i \in DOMAIN totals |-> Ranking(FALSE, totals[i])]

\* The active masters, newest account first; `mine` is this one's ranking, if any
Listing(them, mine) == Theirs(them.newer) \o mine \o Theirs(them.older)

\* sort, which keeps the order of masters with as many trades
MostTradesFirst(list) ==
    {[i \in DOMAIN list |-> list[p[i]]] : p \in
        {q \in Bijection(DOMAIN list, DOMAIN list) :
            \A i, j \in DOMAIN list : i < j =>
                \/ list[q[i]].trades > list[q[j]].trades
                \/ list[q[i]].trades = list[q[j]].trades /\ q[i] < q[j]}}

TopOf(list) == {First(ranked, TopCap) : ranked \in MostTradesFirst(list)}

\* getTopMasters: the whole answer fails when one of the others was disabled meanwhile.
RankMasters ==
    LET mine == IF HasFigures THEN <<Ranking(TRUE, call.read.totalTrades)>> ELSE <<>>
    IN  /\ At("rank")
        /\ \/ call.read.others # others /\ Read("notFound", <<>>)
           \/ \E top \in TopOf(Listing(call.read.others, mine)) : Read("done", [top |-> top])

ActiveMasters == Listing(others, IF active THEN <<Ranking(TRUE, Len(trades))>> ELSE <<>>)

\* The other request of the page's Promise.all: getMasterHistory or getActiveMasters
ReadSide ==
    /\ call.kind \in {"detail", "top"} /\ call.read.side = None
    /\ call' = [call EXCEPT !.read.side =
                    IF call.kind = "detail" THEN First(Reverse(trades), HistoryCap)
                    ELSE Len(ActiveMasters)]
    /\ UNCHANGED <<trades, text, active, others, moved, writes>>

Server ==
    \/ ListMasters \/ FindMaster \/ CountAll \/ CountClosed \/ ReadClosed
    \/ ReadVolumes \/ ReadNewest \/ ReadRecent \/ CountOpen \/ RankMasters \/ ReadSide

Leave ==
    /\ call.stage \in {"done", "notFound"}
    /\ call' = [kind |-> "none", stage |-> "idle", read |-> <<>>]
    /\ UNCHANGED <<trades, text, active, others, moved, writes>>

Next ==
    \/ OpenTrade \/ SwitchMaster \/ OthersChange
    \/ \E i \in DOMAIN trades : CloseTrade(i)
    \/ \E kind \in Kinds : Begin(kind)
    \/ Server \/ Leave

Spec == Init /\ [][Next]_vars

----------------------------------------------------------------------------
(* What the pages show of an answer *)

Answered == At("done") /\ HasFigures
BothAnswered == At("done") /\ call.kind \in {"detail", "top"} /\ call.read.side # None

OfAnalytics(field) == IF call.read.analytics = None THEN None ELSE call.read.analytics[field]

\* The response of getMasterProfile (whether the master is live is NodeRegistry's); a row
\* that closes after it was counted drives the win rate past 100 %.
Profile ==
    [totalTrades |-> call.read.totalTrades, closedTrades |-> call.read.closedTrades,
     winRate |-> Percent(call.read.winningTrades, call.read.closedTrades),
     totalPnL |-> call.read.totalPnL,
     avgVolume |-> IF call.read.totalTrades = 0 THEN 0
                   ELSE Hundredths(call.read.totalVolume, call.read.totalTrades),
     bio |-> text.bio, platform |-> text.platform, strategy |-> text.strategy,
     risk |-> text.risk, isLive |-> FALSE,
     riskMetrics |-> OfAnalytics("riskMetrics"), sparkline |-> OfAnalytics("sparkline"),
     activeFrom |-> OfAnalytics("activeFrom")]

\* The response of getMasterDashboard
DashboardData ==
    [profile |-> Profile, recentTrades |-> call.read.recentTrades,
     openTrades |-> call.read.openTrades, totalSignalsSent |-> Profile.totalTrades]

\* The showcase: the number of providers, and a card for the first of the top masters
Showcase ==
    IF At("notFound") THEN [total |-> 0, cards |-> <<>>]
    ELSE [total |-> call.read.side, cards |-> First(call.read.top, TopCap)]

\* The marketplace: a card for each listed master, one of defaults without its profile
MarketCards ==
    IF call.read.listed
    THEN <<TraderCard(MapMasterToTraderCard(IF HasFigures THEN Profile ELSE None, FALSE))>>
    ELSE <<>>

----------------------------------------------------------------------------
(* Properties *)

\* An answer that no write overtook adds up: closed and open trades are all the
\* trades, the win rate is the share of closed rows that won, the volume is averaged
\* over the rows it was summed over; and the dashboard hides the performance of no
\* provider who has traded.
FiguresAddUp ==
    Answered /\ ~moved =>
        LET won == {i \in DOMAIN trades : trades[i].pnl > 0}
            shut == {i \in DOMAIN trades : trades[i].status = "CLOSED"}
        IN  /\ Profile.totalTrades = Cardinality(DOMAIN trades)
            /\ Profile.closedTrades = Cardinality(shut)
            /\ Profile.winRate <= 10000
            /\ trades # <<>> => Profile.avgVolume = 100
            /\ call.kind = "dashboard" =>
                LET page == Overview(DashboardData)
                IN  /\ page.kpis.open + Profile.closedTrades = page.kpis.sent
                    /\ page.kpis.winRate = IF shut = {} THEN None
                                           ELSE Percent(Cardinality(won), Cardinality(shut))
                    /\ page.hero => trades = <<>>
                    /\ ~page.hero =>
                        /\ page.performance.totalPnL = PnlOf(trades)
                        /\ \A i \in DOMAIN page.recent :
                            page.recent[i].pnl = PnlShown(trades[Len(trades) + 1 - i])

\* The loops of master-analytics.util.ts yield what their names say, over the newest
\* closed trades; the sparkline starts with the first of them and ends with
\* their sum, and the four hours named are the fullest.  Drawn, the curve stays in
\* its frame, which its highest point reaches.
AnalyticsExact ==
    Answered /\ ~moved =>
        IF Closed(trades) = <<>> THEN call.read.analytics = None
        ELSE \E rows \in NewestOf(Closed(trades)) :
            LET a == call.read.analytics
                drawn == EquityCurve(a.sparkline, 64)
            IN  /\ a.riskMetrics = RiskReference(rows)
                /\ IF Len(rows) < 2 THEN a.sparkline = <<>>
                   ELSE /\ Len(a.sparkline) =
                            (IF Len(rows) < SparklinePoints THEN Len(rows) ELSE SparklinePoints)
                        /\ a.sparkline[1] = rows[1].pnl
                        /\ Last(a.sparkline) = PnlOf(rows)
                        /\ \E f \in [DOMAIN a.sparkline -> DOMAIN rows] :
                            /\ \A i \in DOMAIN f : a.sparkline[i] = SumTo(rows, f[i])
                            /\ \A i, j \in DOMAIN f : i < j => f[i] < f[j]
                        /\ \A i \in DOMAIN drawn : drawn[i] \in 10 .. 54
                        /\ \A i, j \in DOMAIN drawn :
                            a.sparkline[i] <= a.sparkline[j] => drawn[j] <= drawn[i]
                /\ a.activeFrom \in 0 .. 20
                /\ \A h \in 0 .. 20 : InWindow(rows, h) <= InWindow(rows, a.activeFrom)

\* The two answers on a provider's page agree unless a write came between them: as
\* long as the history holds every row, the window's totals are the profile's, the
\* chart, when it holds every closed row, ends at the profit of the big card, and
\* the risk card is blank only when no closed trade is listed.
DetailAgrees ==
    (BothAnswered /\ call.kind = "detail" /\ ~moved /\ Len(trades) <= HistoryCap) =>
        LET history == call.read.side
            card == PerformanceBigCard(Profile)
            body == DetailBody(Profile, history)
            window == TradeHistoryModal(history, HistoryCap)
        IN  /\ window.footer = [trades |-> card.totalTrades, totalPnL |-> card.totalPnL,
                                winRate |-> card.winRate]
            /\ Profile.closedTrades \in 1 .. ChartCap => Last(body.chart) = card.totalPnL
            /\ \A i \in DOMAIN body.recent : body.recent[i] = window.rows[i]
            /\ body.risk = None <=> Closed(history) = <<>>
            /\ body.hours = None <=> Closed(history) = <<>>
            /\ ProxyRoi(Profile) = None <=> Closed(history) = <<>>

\* A text that reads like what stands in for a missing one
TypedAsStandIn ==
    text.bio = "no public bio yet" \/ text.platform = "Not set" \/ text.strategy = "Not set"

\* The showcase counts every active master and draws cards for as many of them as it
\* has room for, so that it is blank only when there is none; it leaves this master out
\* only if it is disabled or has no more trades than enough others to fill the cards.
\* The marketplace shows every active master, under one level of risk,
\* with the win rate of its closed trades if it has set up its profile; an empty card
\* leads to a page without texts, and such a page has an empty card.  The card
\* that a provider is shown as its own says the same as theirs, but for the
\* return and the curve, which the three sources of a card work out differently;
\* only a first-time provider with nothing but a strategy is shown an empty one.
ShowcaseComplete ==
    ~moved =>
        /\ BothAnswered /\ call.kind = "top" =>
            LET cards == Showcase.cards
                list == ActiveMasters
                shown == \E i \in DOMAIN cards : cards[i].own
            IN  /\ Showcase.total = Len(list)
                /\ Len(cards) = IF Len(list) < TopCap THEN Len(list) ELSE TopCap
                /\ shown => active /\ \A i \in DOMAIN cards :
                        cards[i].own => cards[i].trades = Len(trades)
                /\ active /\ ~shown =>
                    Cardinality({i \in DOMAIN list : /\ ~list[i].own
                                                    /\ list[i].trades >= Len(trades)}) >= TopCap
        /\ At("notFound") => ~active /\ call.kind # "top"
        /\ At("done") /\ call.kind = "market" =>
            /\ Len(MarketCards) = IF active THEN 1 ELSE 0
            /\ \A i \in DOMAIN MarketCards :
                LET card == MarketCards[i]
                IN  /\ card.button <=> {text.bio, text.platform, text.strategy} # {None}
                    /\ card.button =>
                        /\ card.winRate = Percent(Wins(trades), Len(Closed(trades)))
                        /\ LET n == RiskCounts(MarketCards)
                           IN  n["ALL"] = n["LOW"] + n["MEDIUM"] + n["HIGH"]
                    /\ HasFigures =>
                        LET hero == ProviderHeroBand(Profile)
                            blank == <<hero.bio, hero.platform, hero.strategy>> =
                                     <<"no public bio yet", "Not set", "Not set">>
                        IN  /\ card.empty => blank
                            /\ blank => card.empty \/ TypedAsStandIn
        /\ Answered /\ call.kind = "dashboard" =>
            LET market == TraderCard(MapMasterToTraderCard(Profile, FALSE))
                copier == TraderCard(CopierCardData(Profile))
                own == Overview(DashboardData).preview
            IN  /\ \A f \in {"empty", "winRate", "risk", "button"} : market[f] = copier[f]
                /\ IsFirstTimeProvider(DashboardData) \/
                    \A f \in {"empty", "winRate", "risk", "button"} : market[f] = own[f]
                /\ own.empty /\ ~market.empty => trades = <<>> /\ text.strategy # None

============================================================================
