SPECIFICATION FairSpec
CONSTANTS
    Forks = {f1, f2}
    MaxHeight = 2
    Modes = {"raw-rpc", "sdk", "sdk-then-raw-rpc", "unsupported"}
    WaitFors = {"submitted", "inBlock", "finalized", "unsupported"}
    ProveAttempts = 2
CHECK_DEADLOCK FALSE
INVARIANTS
    TypeOK
    ReportedInclusionIsReal
    SuccessMeansSubmitted
    OnlyCheckedReachesNode
PROPERTIES
    HelperEnds
    NeverTurnsBack
    ImplementsPromise
