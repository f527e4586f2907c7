SPECIFICATION FairSpec
INVARIANT TagIsConfirmed
CONSTANTS
    Sockets = {"a", "b", "c"}
    Masters = {"m1", "m2"}
    Slaves = {"s1", "s2"}
    NodeOf <- OneMaster
    Windows = {}
    Tickets = {1}
    OwnerOf <- AllOfM1
    DbFails = TRUE
    Env = {}
    None = None
CHECK_DEADLOCK FALSE
