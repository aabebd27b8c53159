CONSTANTS
    Wallets = {w1, w2}
    OtherClients = {}
    Coins = {c1}
    Blindings = {r1, r2}
    Index = {1}
    Contracts = {k1}
    DebugBuild = FALSE
    MaxWire = 1
    MaxBundles = 1
SPECIFICATION Spec
SYMMETRY Symmetry
CHECK_DEADLOCK FALSE
INVARIANTS
    TypeOK
    ProvedHandoffIsConsistent
    CompletedHandoffIsHonest
