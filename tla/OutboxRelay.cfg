\* Three rows of two sources, one refused by the broker; two relays; a
\* lease one tick longer than the longest batch.
CONSTANTS
    own = own
    all = all
    Row = {1, 2, 3}
    Oversize = {2}
    Relay = {own, all}
    Scope <- ScopeOf
    Batch = 2
    Lease = 7
    PublishTimeout = 1
    DbDelay = 1
    Window = 2
SPECIFICATION Spec
INVARIANTS TypeOK SentIsDelivered LeaseIsExclusive  
