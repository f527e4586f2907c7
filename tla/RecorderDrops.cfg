SPECIFICATION FairSpec
PROPERTIES
    FeedSpec
    OpenAnnounced
    CloseAnnounced
CONSTANTS
    Tickets = {t1, t2}
    Copied = {}
    Runs = {r1, r2}
    Env = {"disconnect"}
    None = None
\* Starts and positions run out at the bounds Runs and Tickets: the run may stop.
CHECK_DEADLOCK FALSE
