SPECIFICATION FairSpec
INVARIANTS
    PersistBeforeSend
    RowConsistent
    CloseFinalizes
    TaggedIsReached
PROPERTY SignalReaches
CONSTANTS
    Sockets = {"a", "b", "c"}
    Masters = {"m1", "m2"}
    Slaves = {"s1", "s2"}
    NodeOf <- OneMaster
    Windows = {}
    Tickets = {1}
    OwnerOf <- AllOfM1
    DbFails = TRUE
    Env = {}
    None = None
\* Connections and tickets run out at their bounds: the run may stop.
CHECK_DEADLOCK FALSE
