CONSTANTS
    w1 = w1
    w2 = w2
    ana = ana
    beto = beto
    caja1 = caja1
    caja2 = caja2
    milk = milk
    ham = ham
    kit = kit
    carlos = carlos
    none = none
    Workers = {w1, w2}
    Users = {ana, beto}
    Terminals = {caja1, caja2}
    Products = {milk, ham}
    Bulk = {ham}
    Kits = {kit}
    Customers = {carlos}
    NoCustomer = none
    NoOrder = noOrder
    Parts <- MCParts
    InitStock <- MCInitStock
    InitTerms <- MCInitTerms
    InitWallet <- MCInitWallet
    Ops <- KitOps
    Orders <- KitOrders
    InitTurns <- TwoTills
    Retirable = {milk}
    Deltas = {}
    NewTerms = {}
    MaxTurns = 2
    MaxSales = 3
    MaxMoves = 0
    MaxAdjusted = 4
SPECIFICATION Spec
SYMMETRY Symmetry
INVARIANTS
    NothingOversold
