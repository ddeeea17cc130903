\* Timers validate_event_timing_contract accepts (1 < 2 < 3), with a
\* dead-letter timeout it does not look at.
CONSTANTS
    Event = {e1}
    Copy = {1, 2}
    Undecodable = {}
    NoMessage = NoMessage
    Worker = {w1, w2}
    HandlerTimeout = 1
    AckWait = 2
    Stale = 3
    DeadLetterTimeout = 4
    RetryDelay = 1
    DbDelay = 0
    MaxAttempts = 1
    AmbiguousCommit = FALSE
SPECIFICATION Spec
INVARIANT ExclusiveClaim
