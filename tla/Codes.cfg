SPECIFICATION AuthSpec
INVARIANTS
    SignedInVerified
    CodesAreSpent
    ResetSticks
    LinkIsHonest
SYMMETRY Symmetry
CONSTANTS
    Calls = {c1, c2}
    Tabs = {"a"}
    Passwords = {p, q}
    MaxRequests = 3
    MaxCodes = 2
    MaxAttempts = 1
    ResendTicks = 1
    TtlTicks = 1
    Starts = {"none", "unverified", "old", "disabled"}
    Env = {"mailFails", "tokenExpires"}
    None = None
