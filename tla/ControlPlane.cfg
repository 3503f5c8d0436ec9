CONSTANTS
    w1 = w1
    w2 = w2
    e1 = e1
    e2 = e2
    p1 = p1
    p2 = p2
    c1 = c1
    c2 = c2
    Workers = {w1, w2}
    Emails = {e1, e2}
    Secrets = {p1, p2}
    MaxBranches = 2
    MaxRows = 3
    MaxVersion = 2
    Callers = {c1, c2}
    Machines = {"a", "b"}
    Bought <- MCBought
    Fragile = {"board_serial"}
    Looked = 1
    TrialDays = 1
    IssuedTrialDays = 2
    MonthDays = 1
    SupportDays = 1
    ReminderDays = 1
    Offers <- MCOffers
    LastDay = 2
    MaxTenants = 3
    MaxLicences = 3
    LastVersion = 3
    MaxCuts = 2
    Channels = {"stable", "beta"}
    Own = "stable"
    Branches = {e1, e2}
    TenantOf <- MCTenantOf
    Slugs = {"s1"}
    Askers = {w1, w2}
    MaxTunnels = 2
    MaxForced = 1
    MaxMishaps = 1
    Stores = {e1, e2}
    Posts = {w1, w2}
    PosVersions = {1, 2}
    Readings <- MCReadings
    OfflineAfter = 0
    LongAfter = 1
    BackupAfter = 0
    LastMoment = 2
    MaxBeats = 2
    MaxReports = 1
    Owners = {"t1", "t2"}
    Shops = {"s1", "s2", "s3"}
    OwnerOf <- MCOwnerOf
    FirstShop <- MCFirst
    Reporters = {w1, w2}
    Paid = {c1}
    Terms = {1}
    SessionHours = 0
    CloudHours = 1
    LastHour = 1
    MaxSigned = 1
    MaxReported = 2
    MaxReviews = 2
SPECIFICATION MCSpec
SYMMETRY MCSymmetry
INVARIANTS
    TypesOK
    ChecksOvershootByCalls
    GrantedOnce
    GateAgrees
    RollbackGoesBack
    OneTunnel
    OwnerPagesHold
PROPERTIES
    OrphanedForGood
    AccessKept
CHECK_DEADLOCK FALSE
