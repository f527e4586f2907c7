SPECIFICATION ListeningSpec
INVARIANTS
    ClosedWhenQuiet
CONSTANTS
    Tickets = {m1, m2}
    SlaveTickets = {s1, s2}
    Handlers = {h1, h2}
    Symbols = {"gold", "xau"}
    SymbolOf <- GoldOnly
    MapEntries <- GoldToXau
    Whitelists <- NoWhitelist
    Caps = {0}
    TopCap = 1
    LossLimits = {0}
    Pnls <- Loss
    MaxOpens = 1
    Env = {}
    None = None
SYMMETRY Symmetry
\* The master's signals run out at the bound MaxOpens: the run may stop.
CHECK_DEADLOCK FALSE
