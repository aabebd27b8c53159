CONSTANTS
    Wallets = {w1}
    OtherClients = {x1}
    Coins = {c1, c2}
    Blindings = {r1}
    Index = {1}
    Contracts = {}
    DebugBuild = FALSE
    MaxWire = 2
    MaxBundles = 2
SPECIFICATION Spec
SYMMETRY Symmetry
CHECK_DEADLOCK FALSE
INVARIANTS
    SpendsMatchTheirLeaf
    SpendsAuthorized
    IInv
