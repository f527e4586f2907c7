SPECIFICATION Spec
INVARIANTS
    AvatarServed
    AdminTableTrue
    ProviderPageTrue
    DeskListTrue
    CopierPageTrue
    SignalsAreTheProviders
    
PROPERTIES
    LedgerStep
CONSTANTS
    Calls = {c1, c2}
    Bios = {b1, b2}
    Exts = {jpg, png}
    MaxDrawn = 3
    Env = {"saveFails", "list", "dashboard", "subscribers", "masters", "profiles"}
    Budgets <- SmallBudgets
    MaxSignals = 2
    TradesCap = 1
    TrendingCap = 1
    None = None
SYMMETRY Symmetry
\* Clicks run out at the bound Budgets: the run may stop.
CHECK_DEADLOCK FALSE
