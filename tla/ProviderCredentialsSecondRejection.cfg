\* A provider that renews an old refresh token twice: the second refused renewal of
\* a revision finds the job of the first in the outbox.
SPECIFICATION Spec
CONSTANTS
    Procs = {x1, x2}
    Providers = {p1}
    Accounts = {u1}
    None = None
    Orphans = FALSE
    Outcomes = {"succeeded", "failed"}
    RotationSpends = FALSE
    MaxAttempts = 1
    MaxGrants = 3
    MaxRevision = 2
    MaxTries = 1
    MaxFaults = 2
CHECK_DEADLOCK FALSE
INVARIANT NoGrantIsForgotten
