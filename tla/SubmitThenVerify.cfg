SPECIFICATION PipelineSpec
CONSTANTS
    Forks = {f1, f2}
    MaxHeight = 3
    Modes = {"raw-rpc"}
    WaitFors = {"inBlock", "finalized"}
    ProveAttempts = 1
SYMMETRY Symmetry
CHECK_DEADLOCK FALSE
INVARIANT FinalizedReportVerifies
