SPECIFICATION RegistrySpec
INVARIANTS
    GhostsAreRaced
    ShownHasEntry
    RegisteredIsShown
CONSTANTS
    Sockets = {"a", "b", "c", "d"}
    Masters = {"m1", "m2"}
    Slaves = {"s1"}
    NodeOf <- TwoEach
    Windows = {"m1", "m2"}
    Env = {"overlap", "hasty", "subscribe", "refuse", "relaunch", "disorder"}
    None = None
\* Connections run out at the bound Sockets: the run may stop.
CHECK_DEADLOCK FALSE
