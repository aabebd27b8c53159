SPECIFICATION Spec
CONSTANT
    Lengths <- MCLengths
CHECK_DEADLOCK FALSE
INVARIANTS
    TypeOK
    NodeReadsTheTransaction
    FramesWhatFits
