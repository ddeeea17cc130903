\* A COMMIT that takes effect although its reply is lost.
CONSTANTS
    Event = {e1}
    Copy = {1, 2}
    Undecodable = {}
    NoMessage = NoMessage
    Worker = {w1, w2}
    HandlerTimeout = 1
    AckWait = 2
    Stale = 3
    DeadLetterTimeout = 1
    RetryDelay = 1
    DbDelay = 0
    MaxAttempts = 2
    AmbiguousCommit = TRUE
SPECIFICATION Spec
INVARIANT AtMostOneEffect
