CONSTANTS
    r1 = r1
    r2 = r2
    r3 = r3
    k1 = k1
    k2 = k2
    Requests = {r1, r2, r3}
    Managers = {"m1", "m2"}
    Skus = {"a"}
    Prices = {1, 2}
    Keys = {k1, k2}
    KeyOf <- MCKeyOf
    Kind <- MCKind
    Wanted <- MCWanted
    BatchLimit = 2
SPECIFICATION Spec
INVARIANTS
    TypeOK
    AppliedOnce
    CloudAgrees
PROPERTIES
    LeftForGood
    QueueDrains
    PromiseKept
