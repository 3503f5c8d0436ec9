CONSTANTS
    w1 = w1
    w2 = w2
    ana = ana
    beto = beto
    caja1 = caja1
    caja2 = caja2
    milk = milk
    ham = ham
    kit = kit
    carlos = carlos
    none = none
    Workers = {w1, w2}
    Users = {ana}
    Terminals = {caja1}
    Products = {milk, ham}
    Bulk = {ham}
    Kits = {kit}
    Customers = {carlos}
    NoCustomer = none
    NoOrder = noOrder
    Parts <- MCParts
    InitStock <- MCInitStock
    InitTerms <- MCInitTerms
    InitWallet <- MCInitWallet
    Ops <- AllOps
    Orders <- MixedOrders
    InitTurns <- OneTill
    Retirable = {milk}
    Deltas <- MinusOne
    NewTerms <- OnlyInactive
    MaxTurns = 1
    MaxSales = 1
    MaxMoves = 1
    MaxAdjusted = 4
SPECIFICATION Spec
SYMMETRY Symmetry
INVARIANTS
    IInv
PROPERTIES
    RefinesStore
