SPECIFICATION Spec
INVARIANTS
    FiguresAddUp
    AnalyticsExact
    DetailAgrees
    ShowcaseComplete
CONSTANTS
    SparklinePoints = 3
    ChartCap = 2
    RecentCap = 2
    ClosedCap = 4
    HistoryCap = 3
    TopCap = 2
    Starts <- SmallStarts
    SyntheticCurve <- Rising
    Pnls = {2}
    Hours = {26}
    MaxWrites = 1
    None = None
