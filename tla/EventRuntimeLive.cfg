\* One message, two workers, ambiguous commits, under fairness.
CONSTANTS
    Event = {e1}
    Copy = {1}
    Undecodable = {}
    NoMessage = NoMessage
    Worker = {w1, w2}
    HandlerTimeout = 1
    AckWait = 2
    Stale = 3
    DeadLetterTimeout = 1
    RetryDelay = 1
    DbDelay = 0
    MaxAttempts = 2
    AmbiguousCommit = TRUE
SPECIFICATION FairSpec
PROPERTY EventuallyAcked
