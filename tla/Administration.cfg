\* Two requests at a time on one provider, which starts with its account connected
\* or with the orphan of an older release; the provider issues two more grants,
\* and one request stops or one lease ends on the way, and one failed revocation is
\* tried again.  Or two synchronisations and
\* two installations of a package with three commits, one of them unsound, or two
\* installations and two decks.
SPECIFICATION AdminSpec
CONSTANTS
    Procs = {x1, x2}
    Providers = {p1}
    Accounts = {u1}
    None = None
    Orphans = TRUE
    Outcomes = {"succeeded", "failed"}
    RotationSpends = TRUE
    MaxAttempts = 1
    MaxGrants = 3
    MaxRevision = 2
    MaxTries = 2
    MaxFaults = 1
    c1 = c1
    c2 = c2
    c3 = c3
    g1 = g1
    g2 = g2
    pinned = pinned
    s1 = s1
    s2 = s2
    o1 = o1
    o2 = o2
    Commits = {c1, c2, c3}
    SoundCommits = {c1, c2}
    Digests = {g1, g2}
    DigestOf <- MCDigestOf
    Syncs = {s1, s2}
    Operations = {o1, o2}
    Specs = {plain, pinned}
    Decks = {d1, d2}
    Nil = Nil
CONSTRAINT InOrder
SYMMETRY Symmetry
CHECK_DEADLOCK FALSE
INVARIANTS
    NoGrantIsForgotten
    InUseIsNotRevoked
    RowsTellTheTruth
    PluginsAreSound
PROPERTIES
    LateAnswersAreFenced
    PluginStepsAreSafe
