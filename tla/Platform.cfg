SPECIFICATION PlatformSpec
CONSTANTS
    p1 = p1
    p2 = p2
    Provider = {p1, p2}
    MaxAttempts <- MCMaxAttempts
    Strict = FALSE
    Configured = {{p2}, {p1, p2}}
    Outcome <- MCOutcome
    MaxWindow = 2
    MaxRevision = 1
    Event = {e1}
    Copy = {k1, k2}
    Consumer = {c1, c2}
    Operator = {o1, o2}
    MaxStarts = 1
    Requester = {r1, r2}
    RateLimit = 1
    LockSteps = 2
    MaxClients = 2
    MaxCount = 2
    MaxLives = 2
    User = {"u1", "u2"}
    Organization = {"o1"}
    Resource = {"r1"}
    Role = {"observer", "steward"}
    Permission = {"read", "write"}
    Steward = "steward"
    GlobalPolicy <- MCGlobalPolicy
    ScopedPolicy <- MCScopedPolicy
    MaxGrants = 2
    Repo = {"r1"}
    Member = {"u1", "u2"}
    Admin = {"u2"}
    Worker = "nobody"
    Path = {"p"}
    MaxWrites = 3
    Trees <- MCTrees
    Asked <- MCAsked
    Faults <- MCFaults
    Yaml = {"app.yaml", "svc.yaml", "t.yaml", "v.yaml", "Chart.yaml", "kustomization.yaml"}
    Json = {"x.json"}
    MAX_TREE_ITEMS = 9
    MAX_CANDIDATES = 6
    MAX_MANIFEST_BYTES = 2
    MAX_RENDER_SOURCE_FILES = 4
    MAX_RENDER_SOURCE_BYTES = 5
    MaxPushes = 2
    Item <- MCItem
    Supported = {1}
    Progress = {"applying", "succeeded"}
    MaxClock = 2
    Scenario <- MCScenario
    MEMORY_CAP = 4096
    MaxEdits = 1
    PrKind = {"structured", "legacy", "manifest_edit", "plain"}
    AuthorityRecord <- MCAuthority
    MaxCommits = 3
    MaxMoves = 2
    MaxCuts = 2
    Source = {"kubernetes", "loki"}
    Content = {"none", "v1", "v2"}
    Declared = "v1"
    MaxTries = 1
    MaxRuns = 1
INVARIANTS
    DeliveryIsAccounted
    
    StoreIsSound
    AllowedWasListed
    PolledIsReconnected
    DiscoveryIsConsistent
    ApprovedIsNewest
    
    
    
PROPERTIES
    ResultsAreFinal
CHECK_DEADLOCK FALSE
