CONSTANTS
    Wallets = {w1}
    OtherClients = {x1}
    Coins = {c1}
    Blindings = {r1}
    Index = {i1, i2}
    Contracts = {k1}
    DebugBuild = FALSE
    MaxWire = 2
    MaxBundles = 2
SPECIFICATION Spec
SYMMETRY PositionSymmetry
CHECK_DEADLOCK FALSE
INVARIANTS
    NoDoubleSpend
    HonestHandoffIsSpendable
PROPERTIES
    ImplementsLedger
