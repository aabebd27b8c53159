SPECIFICATION Spec
CONSTANTS
    Forks = {f1, f2}
    MaxHeight = 2
    Modes = {"raw-rpc"}
    WaitFors = {"finalized"}
    ProveAttempts = 2
SYMMETRY Symmetry
CHECK_DEADLOCK FALSE
INVARIANT RejectedIsNotFinalized
