SPECIFICATION Spec
CONSTANT Starts <- MCStarts
INVARIANTS
    TypeOK
    SameZswapKey
    SameNode
    SameNetwork
    DryRunStaysDry
CHECK_DEADLOCK FALSE
