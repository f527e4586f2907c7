SPECIFICATION SessionSpec
INVARIANTS
    SessionIsOnePersons
    NextRequestIsOwn
PROPERTIES
    BlankEnds
CONSTANTS
    Tabs = {"a", "b"}
    Users = {"ann", "root"}
    RoleOf <- Roles
    Requests = {"r1"}
    MaxTokens = 2
    None = None
