CONSTANTS
    piece = piece
    kilo = kilo
    Common = Common
    Unset = Unset
    PriceList <- MCPriceList
    Lines <- MCLines
    Payments = {"cash", "credit", "mixed"}
    Forms = {"01", "99"}
    Fine = 4
    MaxLines = 1
    MaxDocuments = 1
SPECIFICATION AmountsSpec
INVARIANTS
    DeferredIsDeclared
CHECK_DEADLOCK FALSE
