SPECIFICATION Spec
CONSTANT MaxSets = 1
INVARIANT OverriddenBitsFail
CHECK_DEADLOCK FALSE
