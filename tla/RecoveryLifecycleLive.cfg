\* One pull request and one gateway request at a time; two selections, so that
\* a selection made by a retry occurs; the authority moves once.  A plan may
\* rest for ever.
CONSTANTS
    a = a
    b = b
    p = p
    q = q
    None = None
    Action = {a, b}
    Handoff = {b}
    Pull = {p}
    MaxAttempt = 2
    MaxCommit = 1
    MaxPush = 1
    MaxRetry = 1
    MaxRequest = 1
SPECIFICATION FairSpec
PROPERTIES  DeploymentAnswered
CHECK_DEADLOCK FALSE
