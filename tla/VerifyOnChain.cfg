SPECIFICATION FairSpec
CONSTANTS
    Forks = {f1, f2}
    MaxHeight = 3
CHECK_DEADLOCK FALSE
INVARIANTS
    TypeOK
    FinalizedFlagIsRight
PROPERTIES
    OrphanNeverVerified
    FinalBlockIsVerified
    StandingBlockIsVerified
    VerdictOnceOpen
    ImplementsVerdict
