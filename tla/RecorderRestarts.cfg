SPECIFICATION Spec
INVARIANTS
    NoEcho
    CloseTruthful
    StoppedIsQuiet
CONSTANTS
    Tickets = {t1, t2}
    Copied = {t1}
    Runs = {r1, r2}
    Env = {"stop"}
    None = None
SYMMETRY Symmetry
\* Starts and positions run out at the bounds Runs and Tickets: the run may stop.
CHECK_DEADLOCK FALSE
