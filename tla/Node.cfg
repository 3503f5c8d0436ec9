CONSTANTS
    w1 = w1
    w2 = w2
    s1 = s1
    s2 = s2
    d1 = d1
    d2 = d2
    p1 = p1
    l1 = l1
    Transfers = {w1, w2}
    Items = {p1}
    ItemOf <- MCItemOf
    QtyOf <- MCQtyOf
    StartStock <- MCStartStock
    MaxSold = 1
    MaxFaults = 1
    Published = {w1, w2}
    Handlers <- MCHandlers
    Quiet = {"hook"}
    MaxRetries = 2
    MaxReplays = 1
    MaxLost = 1
    Goods = {w1, w2}
    Qtys = {2}
    UnitPrices = {5, 7}
    TaxRates = {16}
    Discounts = {300}
    PageSize = 3
    MaxEvents = 4
    Clerks = {w1, w2}
    Products = {p1}
    Losses = {l1}
    LossOf <- MCLossOf
    Prices = {1, 2}
    MaxStock = 2
    MaxPushes = 1
    Calls = {w1, w2}
    Sessions = {l1}
    PairTokens = {s1, s2}
    Devices = {d1, d2}
    Owners = {s1, s2}
    MaxRestarts = 1
    Asking = {w1, w2}
    Serving = {s1, s2}
    MAX_CONCURRENT_REQUESTS = 1
    max_size = 2
    maxRetries = 1
    MaxLetIn = 1
    MaxCharges = 2
    Desks = {w1, w2}
    Names = {s1, s2}
    PullLimit = 2
    MaxRows = 3
    MaxEdits = 2
    Managers = {w1, w2}
    Codes = {s1, s2}
    MaxEmployees = 3
    MaxChanges = 5
    Letters = {"a", "b"}
    Givens <- MCGivens
    MaxText = 6
    MaxTerm = 3
SPECIFICATION MCSpec
SYMMETRY MCSymmetry
INVARIANTS
    TypesOK
    TransferWhole
    OutboxKeeps
    ProjectionAgrees
    CatalogueTraced
    TokensHonoured
    AdmissionHolds
    PeopleHold
    QueriesMeant
CHECK_DEADLOCK FALSE
