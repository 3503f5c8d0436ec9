CONSTANTS
    w1 = w1
    w2 = w2
    s1 = s1
    s2 = s2
    piece = piece
    kilo = kilo
    Workers = {w1, w2}
    Sales = {s1, s2}
    MaxStamps = 2
    MaxFolio = 2
    MaxBroken = 1
    Common = Common
    Unset = Unset
    PriceList <- MCPriceList
    Lines <- MCLines
    Payments = {"cash", "credit", "mixed"}
    Forms = {"99"}
    Fine = 4
    MaxLines = 2
    MaxDocuments = 2
    Tickets = {s1, s2}
    Shifts = {w1, w2}
    Notes = {n1}
    SaleKinds <- MCKinds
    InitialCash = 3
    SlotsPerDay = 2
    DaysPerYear = 1
    Offsets = {0, 1}
    MaxTime = 2
SPECIFICATION MCSpec
SYMMETRY MCSymmetry
INVARIANTS
    TypesOK
    StampsAccounted
    DocumentsAddUp
    FiguresAgree
CHECK_DEADLOCK FALSE
