SPECIFICATION Spec
INVARIANTS
    NoOrphan
    NoDangling
    LossLimitEnforced
    AckMatchesMap
    CapOvershoot
CONSTANTS
    Tickets = {m1, m2, m3}
    SlaveTickets = {s1, s2, s3}
    Handlers = {h1, h2}
    Symbols = {"gold", "xau"}
    SymbolOf <- GoldOnly
    MapEntries <- GoldToXau
    Whitelists <- NoWhitelist
    Caps = {1}
    TopCap = 1
    LossLimits = {1}
    Pnls <- Loss
    MaxOpens = 1
    Env = {"reset", "quotes", "reject", "loss", "mapping"}
    None = None
SYMMETRY Symmetry
\* The master's signals run out at the bound MaxOpens: the run may stop.
CHECK_DEADLOCK FALSE
