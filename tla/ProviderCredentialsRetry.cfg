\* The revocation of a grant that could not be activated fails.
SPECIFICATION Spec
CONSTANTS
    Procs = {x1}
    Providers = {p1}
    Accounts = {u1, u2}
    None = None
    Orphans = FALSE
    Outcomes = {"succeeded", "failed"}
    RotationSpends = TRUE
    MaxAttempts = 1
    MaxGrants = 2
    MaxRevision = 2
    MaxTries = 2
    MaxFaults = 0
CHECK_DEADLOCK FALSE
INVARIANT FailedCanBeRetried
