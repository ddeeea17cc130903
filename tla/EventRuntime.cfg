\* Two copies of one event and one undecodable message, two workers, timers
\* that satisfy SafeTiming with equality.
CONSTANTS
    Event = {e1}
    Copy = {0, 1, 2}
    Undecodable <- Garbage
    NoMessage = NoMessage
    Worker = {w1, w2}
    HandlerTimeout = 1
    AckWait = 2
    Stale = 6
    DeadLetterTimeout = 1
    RetryDelay = 1
    DbDelay = 1
    MaxAttempts = 2
    AmbiguousCommit = FALSE
SPECIFICATION Spec
SYMMETRY Symmetry
INVARIANTS TypeOK ClaimIsFresh ExclusiveClaim LedgerMatchesEffects AckedIsAccountedFor DeadLetterIsRecorded
PROPERTY ImplementsExactlyOnce
