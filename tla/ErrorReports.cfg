SPECIFICATION Spec
INVARIANT StringIsEquivalent
CHECK_DEADLOCK FALSE
