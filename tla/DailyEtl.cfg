SPECIFICATION Spec
CONSTANT MaxClears = 1
INVARIANT NoDoubleCounting
CHECK_DEADLOCK FALSE
