--------------------------- MODULE MasterFigures ---------------------------
(***************************************************************************)
(* The figures drawn from a master's trade rows: master-analytics.util.ts  *)
(* on the server, the chart, the history window and the trader card in the *)
(* browser.  A row is [status, pnl, at]: "OPEN" or "CLOSED", its profit in *)
(* whole units, and the hour it closed in, counted from midnight UTC of    *)
(* some first day.  Percentages and averages keep two decimals, as         *)
(* hundredths.  A loop is a function of the number of rows it has passed;  *)
(* what it should yield is stated without loops under "References".        *)
(***************************************************************************)
EXTENDS Integers, Sequences, SequencesExt, FiniteSetsExt

CONSTANTS
    SparklinePoints,   \* 50: length of a sampled equity curve
    ChartCap,          \* 30: closed rows in the chart
    RecentCap,         \* 10: rows of a dashboard or a detail page
    None               \* null, undefined


\* A filter: the rows at the indices of S, in order
Select(rows, S) ==
    LET passed[i \in 0 .. Len(rows)] ==
            IF i = 0 THEN <<>>
            ELSE IF i \in S THEN Append(passed[i - 1], rows[i]) ELSE passed[i - 1]
    IN  passed[Len(rows)]

\* A reduction: the sum of the first i profits
Sums(rows) ==
    LET sum[i \in 0 .. Len(rows)] == IF i = 0 THEN 0 ELSE sum[i - 1] + rows[i].pnl
    IN  sum

Closed(rows) == Select(rows, {i \in DOMAIN rows : rows[i].status = "CLOSED"})
First(rows, n) == SubSeq(rows, 1, IF Len(rows) < n THEN Len(rows) ELSE n)
PnlOf(rows) == Sums(rows)[Len(rows)]
Wins(rows) == Len(Select(rows, {i \in DOMAIN rows : rows[i].pnl > 0}))

\* Number((a / b).toFixed(2)) for a >= 0, b > 0, in hundredths
Hundredths(a, b) == (200 * a + b) \div (2 * b)
Percent(a, b) == IF b = 0 THEN 0 ELSE Hundredths(100 * a, b)

Day(r) == r.at \div 24
Hour(r) == r.at % 24

----------------------------------------------------------------------------
(* master-analytics.util.ts: `rows` are closed rows, oldest first. *)

Larger(a, b) == IF a > b THEN a ELSE b

\* One row's part in the largest fall from the peak so far; the peak starts at 0, and a
\* curve that never rose has no drawdown.
Fall(s, r) ==
    LET cum == s.cum + r.pnl
        peak == Larger(s.peak, cum)
    IN  [cum |-> cum, peak |-> peak,
         max |-> Larger(s.max, IF peak > 0 THEN Percent(peak - cum, peak) ELSE 0)]

MaxDrawdown(rows) ==
    LET s[i \in 0 .. Len(rows)] ==
            IF i = 0 THEN [cum |-> 0, peak |-> 0, max |-> 0] ELSE Fall(s[i - 1], rows[i])
    IN  s[Len(rows)].max

CalendarDaysInclusive(first, last) == Larger(1, Day(last) - Day(first) + 1)

AvgTradesPerDay(rows) ==
    Hundredths(Len(rows), CalendarDaysInclusive(rows[1], rows[Len(rows)]))

\* Mutant: a win does not end a streak.
LongestLosingStreakNoReset(rows) == Len(Select(rows, {i \in DOMAIN rows : rows[i].pnl < 0}))

Streak(s, r) ==
    IF r.pnl < 0 THEN [cur |-> s.cur + 1, longest |-> Larger(s.longest, s.cur + 1)]
    ELSE [s EXCEPT !.cur = 0]

LongestLosingStreak(rows) ==
    LET s[i \in 0 .. Len(rows)] ==
            IF i = 0 THEN [cur |-> 0, longest |-> 0] ELSE Streak(s[i - 1], rows[i])
    IN  s[Len(rows)].longest

\* Sums per UTC day, then the largest
BestDayPnl(rows) ==
    LET days == {Day(rows[i]) : i \in DOMAIN rows}
        byDay[i \in 0 .. Len(rows)] ==
            IF i = 0 THEN [d \in days |-> 0]
            ELSE [byDay[i - 1] EXCEPT ![Day(rows[i])] = @ + rows[i].pnl]
    IN  Max({byDay[Len(rows)][d] : d \in days})

RiskMetrics(rows) ==
    [maxDrawdown |-> MaxDrawdown(rows), avgPerDay |-> AvgTradesPerDay(rows),
     losingStreak |-> LongestLosingStreak(rows), bestDay |-> BestDayPnl(rows)]

CumulativePnL(rows) == [i \in DOMAIN rows |-> Sums(rows)[i]]

\* The index, from 1, that Math.round picks for the i-th point, i from 0
SampleIndex(i, len) ==
    1 + (2 * i * (len - 1) + SparklinePoints - 1) \div (2 * (SparklinePoints - 1))

EquitySparkline(rows) ==
    LET curve == CumulativePnL(rows)
    IN  CASE Len(rows) < 2 -> <<>>
          [] Len(rows) \in 2 .. SparklinePoints -> curve
          [] OTHER -> [i \in 1 .. SparklinePoints |-> curve[SampleIndex(i - 1, Len(rows))]]

ActiveHours(rows) ==
    LET buckets[i \in 0 .. Len(rows)] ==
            IF i = 0 THEN [h \in 0 .. 23 |-> 0]
            ELSE [buckets[i - 1] EXCEPT ![Hour(rows[i])] = @ + 1]
    IN  buckets[Len(rows)]

Fuller(best, buckets, h) ==
    LET sum == buckets[h] + buckets[h + 1] + buckets[h + 2] + buckets[h + 3]
    IN  IF sum > best.sum THEN [start |-> h, sum |-> sum] ELSE best

\* The first of the fullest four-hour windows; none wraps around midnight.
ActiveWindow(rows) ==
    LET buckets == ActiveHours(rows)
        best[h \in 0 .. 21] ==
            IF h = 0 THEN [start |-> 0, sum |-> -1] ELSE Fuller(best[h - 1], buckets, h - 1)
    IN  IF best[21].sum <= 0 THEN None ELSE best[21].start

BuildAnalytics(rows) ==
    IF rows = <<>> THEN None
    ELSE [riskMetrics |-> RiskMetrics(rows), sparkline |-> EquitySparkline(rows),
          activeFrom |-> ActiveWindow(rows)]

----------------------------------------------------------------------------
(* The browser: `history` holds rows newest first. *)

\* PnLChart: the last closed trades, oldest first, as a running sum
ChartPoints(history) == CumulativePnL(Reverse(First(Closed(history), ChartCap)))

\* Mutant: the win rate of the window counts open trades as lost.
ModalTotalsOpenToo(history, n) ==
    LET filtered == First(history, n)
    IN  [trades |-> Len(filtered), totalPnL |-> PnlOf(filtered),
         winRate |-> Percent(Wins(Closed(filtered)), Len(filtered))]

\* TradeHistoryModal: totals over the first n rows, those of the chosen number of days
ModalTotals(history, n) ==
    LET filtered == First(history, n)
    IN  [trades |-> Len(filtered), totalPnL |-> PnlOf(filtered),
         winRate |-> Percent(Wins(Closed(filtered)), Len(Closed(filtered)))]

\* The trader card's stand-in for a return, in tenths: totalPnL / 75, within +-99.9
ProxyRoi(profile) ==
    LET tenths == (20 * profile.totalPnL + 75) \div 150
    IN  IF profile.closedTrades = 0 THEN None
        ELSE IF tenths > 999 THEN 999 ELSE Larger(tenths, -999)

----------------------------------------------------------------------------
(* References *)

SumTo(rows, j) == PnlOf(SubSeq(rows, 1, j))
PeakTo(rows, j) == Max({SumTo(rows, i) : i \in 0 .. j})
Drawdowns(rows) ==
    {Percent(PeakTo(rows, j) - SumTo(rows, j), PeakTo(rows, j)) :
        j \in {k \in DOMAIN rows : PeakTo(rows, k) > 0}}

LosingRuns(rows) ==
    {j - i : i, j \in 0 .. Len(rows)} \cap
    {n \in 0 .. Len(rows) : \E i \in 0 .. (Len(rows) - n) : \A k \in i + 1 .. i + n : rows[k].pnl < 0}

DaySum(rows, d) == PnlOf(Select(rows, {i \in DOMAIN rows : Day(rows[i]) = d}))

RiskReference(rows) ==
    [maxDrawdown |-> Max(Drawdowns(rows) \cup {0}),
     avgPerDay |-> Hundredths(Len(rows), 1 + Max({Day(rows[i]) : i \in DOMAIN rows})
                                           - Min({Day(rows[i]) : i \in DOMAIN rows})),
     losingStreak |-> Max(LosingRuns(rows)),
     bestDay |-> Max({DaySum(rows, Day(rows[i])) : i \in DOMAIN rows})]

InWindow(rows, h) == Cardinality({i \in DOMAIN rows : Hour(rows[i]) \in h .. h + 3})

============================================================================
