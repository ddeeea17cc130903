SPECIFICATION EvidenceSpec
CONSTANTS
    NoEvent = NoEvent
    Policies <- MCPolicies
    Object = {1, 2, 3}
    LabelledObject = {2}
    Nameless = {3}
    MaxPages <- MCMaxPages
    MaxItems <- MCMaxItems
    ListLimit <- MCListLimit
    MaxChanges = 1
    Alert = {a1}
    Labelled = {a1}
    AlertEvent = {e1, e2}
    AgentEvent = {g1}
    Request = {r1, r2}
    MaxClose = 1
    Correlation = {c1}
    Snapshots <- MCSnapshots
    Catalogs <- MCCatalogs
    EVENT_SIGNAL_MAX_AGE = 5
    MAX_LOG_SIGNAL_AGE = 5
    MAX_KUBERNETES_PODS = 1
    MAX_KUBERNETES_EVENTS = 1
    MAX_LOG_ENTRIES = 1
    Cluster = {1, 2}
    Resource = {1, 2, 3}
    PodOf <- MCPodOf
    Synthetic = {3}
    Payload <- MCPayload
    MaxCuts = 3
    MaxGap = 1
    MaxTime = 3
    ReadLimit = 3
    MaxSnapshots = 3
    Workspaces <- MCWorkspaces
    Appender = {d1, d2}
    Limit = 1
    MaxPinRevision = 2
    MaxRegrants = 1
    Content <- MCContent
    Shown <- MCShown
    Before <- MCBefore
    Cadence = 2
    MinStable = 3
    MaxVerify = 4
    MaxClock = 4
INVARIANTS
    CoverageIsHonest
    
    
    InventoryIsReplayable
    
    TimelineIsFaithful
    VerifiedWasStable
PROPERTIES
    PinMutationIsCurrent
CHECK_DEADLOCK FALSE
