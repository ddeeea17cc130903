\* One action, selected and retried, and an authority that moves in between.
\* A plan may rest for ever.
CONSTANTS
    a = a
    b = b
    p = p
    q = q
    None = None
    Action = {a}
    Handoff = {}
    Pull = {p, q}
    MaxAttempt = 2
    MaxCommit = 1
    MaxPush = 0
    MaxRetry = 0
    MaxRequest = 1
SPECIFICATION Spec
PROPERTY RetryHonoured
CHECK_DEADLOCK FALSE
