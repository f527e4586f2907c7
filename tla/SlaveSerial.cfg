SPECIFICATION FairSpec
INVARIANTS
    TradesViewSound
PROPERTIES
    CloseMirrored
CONSTANTS
    Tickets = {m1, m2}
    SlaveTickets = {s1, s2}
    Handlers = {h1}
    Symbols = {"gold", "xau"}
    SymbolOf <- GoldOnly
    MapEntries <- GoldToXau
    Whitelists <- XauWhitelist
    Caps = {0, 1}
    TopCap = 1
    LossLimits = {0, 1}
    Pnls <- WinOrLoss
    MaxOpens = 1
    Env = {"stop", "quotes", "reset", "settings", "restart", "stopout", "unreported"}
    None = None
\* The master's signals run out at the bound MaxOpens: the run may stop.
CHECK_DEADLOCK FALSE
