--------------------------- MODULE ProviderViews ---------------------------
(***************************************************************************)
(* What the web pages make of a provider's profile and rows: the trader    *)
(* card and its three sources, the provider's page, the history window and *)
(* the provider's own dashboard.  Only what is shown is kept: which figure, *)
(* which stand-in, which section, which button.  A profile has the fields  *)
(* of getMasterProfile, `history` and `recent` hold rows newest first.     *)
(***************************************************************************)
EXTENDS MasterFigures

CONSTANT SyntheticCurve   \* the curve drawn where there is no data: eighty invented points

ASSUME SyntheticAssumption == SyntheticCurve \in Seq(Int) \ {<<>>}

Levels == {"LOW", "MEDIUM", "HIGH"}
NormalizeRisk(level) == IF level \in Levels THEN level ELSE "MEDIUM"

\* An open row has no profit yet.
PnlShown(row) == IF row.status = "OPEN" THEN None ELSE row.pnl

Tone(pnl) == IF pnl >= 0 THEN "mint" ELSE "danger"

----------------------------------------------------------------------------
(* EquityCurve: the points, or invented ones, scaled to whole pixels from the top *)

CurvePoints(data) == IF data = None \/ data = <<>> THEN SyntheticCurve ELSE data

EquityCurve(data, height) ==
    LET points == CurvePoints(data)
        low == Min({points[i] : i \in DOMAIN points})
        high == Max({points[i] : i \in DOMAIN points})
        range == IF high = low THEN 1 ELSE high - low
    IN  [i \in DOMAIN points |-> height - ((points[i] - low) * (height - 20)) \div range - 10]

----------------------------------------------------------------------------
(* The trader card, and the data that three pages give it *)

\* The marketplace and the showcase: a proxy of the return, the true curve
MapMasterToTraderCard(profile, live) ==
    IF profile = None
    THEN [risk |-> "MEDIUM", winRate |-> 0, live |-> live, bio |-> None, platform |-> None,
          strategy |-> None, roi |-> None, curve |-> None]
    ELSE [risk |-> NormalizeRisk(profile.risk), winRate |-> profile.winRate,
          live |-> live \/ profile.isLive, bio |-> profile.bio, platform |-> profile.platform,
          strategy |-> profile.strategy, roi |-> ProxyRoi(profile), curve |-> profile.sparkline]

\* The copier's dashboard: the total profit for a return, no curve
CopierCardData(profile) ==
    [MapMasterToTraderCard(profile, FALSE) EXCEPT
        !.roi = IF profile = None THEN None ELSE 10 * profile.totalPnL, !.curve = None]

\* The provider's preview: the same, once there is a bio
PreviewData(profile) ==
    [MapMasterToTraderCard(profile, FALSE) EXCEPT
        !.roi = IF profile.bio = None THEN None ELSE 10 * profile.totalPnL, !.curve = None]

\* A card without any text is empty: no figures, and a button that does nothing.
TraderCard(trader) ==
    LET empty == trader.bio = None /\ trader.platform = None /\ trader.strategy = None
    IN  [empty |-> empty, button |-> ~empty, live |-> trader.live,
         risk |-> IF empty THEN None ELSE trader.risk,
         roi |-> IF empty THEN None ELSE trader.roi,
         winRate |-> IF empty THEN None ELSE trader.winRate,
         tone |-> IF trader.roi = None THEN "mint" ELSE Tone(trader.roi),
         curve |-> EquityCurve(trader.curve, 64)]

\* RiskFilter: the cards of a level, and their number
Filtered(cards, level) == Select(cards, {i \in DOMAIN cards : level \in {"ALL", cards[i].risk}})
RiskCounts(cards) == [level \in Levels \cup {"ALL"} |-> Len(Filtered(cards, level))]

----------------------------------------------------------------------------
(* A provider's page *)

\* The curve is never that of the profile.
PerformanceBigCard(profile) ==
    [winRate |-> profile.winRate, totalTrades |-> profile.totalTrades,
     avgVolume |-> profile.avgVolume, totalPnL |-> profile.totalPnL,
     tone |-> Tone(profile.totalPnL), curve |-> EquityCurve(None, 220)]

\* None stands for "Not enough closed trades yet".
RiskProfileCard(metrics) ==
    IF metrics = None THEN None
    ELSE [metrics |-> metrics, tone |-> Tone(metrics.bestDay)]

ProviderHeroBand(profile) ==
    [status |-> IF profile.isLive THEN "Live now" ELSE "Idle",
     bio |-> IF profile.bio = None THEN "no public bio yet" ELSE profile.bio,
     platform |-> IF profile.platform = None THEN "Not set" ELSE profile.platform,
     strategy |-> IF profile.strategy = None THEN "Not set" ELSE profile.strategy]

\* A row's profit and its tone; an open trade counts as none lost.
Cells(rows) ==
    [i \in DOMAIN rows |-> [pnl |-> PnlShown(rows[i]), status |-> rows[i].status,
                            tone |-> IF PnlShown(rows[i]) = None THEN "mint"
                                     ELSE Tone(PnlShown(rows[i]))]]

DetailBody(profile, history) ==
    [recent |-> Cells(First(history, RecentCap)),
     pnl |-> profile.totalPnL, chart |-> ChartPoints(history),
     risk |-> RiskProfileCard(profile.riskMetrics), hours |-> profile.activeFrom]

\* TradeHistoryModal over the first n rows, those of the chosen number of days
TradeHistoryModal(history, n) ==
    [rows |-> Cells(First(history, n)), footer |-> ModalTotals(history, n)]

----------------------------------------------------------------------------
(* The provider's own dashboard: `data` is the answer of getMasterDashboard. *)

IsFirstTimeProvider(data) ==
    /\ data.totalSignalsSent = 0
    /\ data.profile.bio = None
    /\ data.profile.platform = None

\* ProviderKpiStrip
KpiStrip(data) ==
    [sent |-> data.totalSignalsSent, open |-> data.openTrades,
     winRate |-> IF data.profile.closedTrades > 0 THEN data.profile.winRate ELSE None,
     tone |-> CASE data.profile.closedTrades = 0 -> "default"
                [] data.profile.closedTrades > 0 /\ data.profile.winRate > 5000 -> "mint"
                [] data.profile.closedTrades > 0 /\ data.profile.winRate < 4000 -> "danger"
                [] OTHER -> "default"]

MyPerformanceCard(profile) ==
    [totalPnL |-> profile.totalPnL, tone |-> Tone(profile.totalPnL),
     avgVolume |-> profile.avgVolume, closedTrades |-> profile.closedTrades]

RecentSignalHistory(trades) ==
    LET rows == First(trades, RecentCap)
    IN  [i \in DOMAIN rows |-> [pnl |-> PnlShown(rows[i]), status |-> rows[i].status]]

PublicProfilePreview(profile, incomplete) ==
    TraderCard([PreviewData(profile) EXCEPT
                    !.bio = IF incomplete THEN None ELSE @,
                    !.platform = IF incomplete THEN None ELSE @,
                    !.strategy = IF incomplete THEN None ELSE @])

Overview(data) ==
    LET firstTime == IsFirstTimeProvider(data)
    IN  [hero |-> firstTime, kpis |-> KpiStrip(data),
         performance |-> IF firstTime THEN None ELSE MyPerformanceCard(data.profile),
         recent |-> IF firstTime THEN None ELSE RecentSignalHistory(data.recentTrades),
         preview |-> PublicProfilePreview(data.profile, firstTime)]

============================================================================
