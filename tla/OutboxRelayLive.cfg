\* Three rows, two relays and a lease shorter than a batch may take, as with
\* the defaults (10 rows of 10 s each, 60 s), under fairness.
CONSTANTS
    own = own
    all = all
    Row = {1, 2, 3}
    Oversize = {2}
    Relay = {own, all}
    Scope <- ScopeOf
    Batch = 2
    Lease = 1
    PublishTimeout = 1
    DbDelay = 0
    Window = 2
SPECIFICATION FairSpec
PROPERTY EventuallySent
