SPECIFICATION Spec
CONSTANTS
    Jobs = {j1, j2}
    NoKey = NoKey
    MaxAttempts = 2
    AttemptLimit = 2
    Requests = {r1, r2}
    Contents = {a, b}
    NoJob = NoJob
    MaxIds = 3
SYMMETRY Perms
CHECK_DEADLOCK FALSE
INVARIANTS
    DoneMeansRegistered
    OneIdentityPerContent
    AttemptsMatchTheState
PROPERTIES
    FollowsTheLifecycle
