\* Two actions with PR routes and two selections.  A plan may rest for ever.
CONSTANTS
    a = a
    b = b
    p = p
    q = q
    None = None
    Action = {a, b}
    Handoff = {}
    Pull = {p, q}
    MaxAttempt = 2
    MaxCommit = 0
    MaxPush = 0
    MaxRetry = 0
    MaxRequest = 1
SPECIFICATION Spec
INVARIANT TrackedPullIsSelected
CHECK_DEADLOCK FALSE
