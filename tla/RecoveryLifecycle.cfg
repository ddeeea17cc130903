\* An action with a PR route and one without, two pull requests, a push, a
\* deploy retry and two gateway requests at a time: every race over the row of
\* an old and a new selection.  The authority moves in RecoveryLifecycleLive.
\* A plan may rest: nobody has to select, merge or retry.
CONSTANTS
    a = a
    b = b
    p = p
    q = q
    None = None
    Action = {a, b}
    Handoff = {b}
    Pull = {p, q}
    MaxAttempt = 2
    MaxCommit = 0
    MaxPush = 1
    MaxRetry = 1
    MaxRequest = 2
SYMMETRY PullSymmetry
SPECIFICATION Spec
INVARIANTS TypeOK MergedAsTracked VerifiedWasDeployed FailedIsRetryable
PROPERTIES OnlyAcceptedMerges
CHECK_DEADLOCK FALSE
