CONSTANTS Containers = {a, b}
SPECIFICATION Spec
INVARIANT OneFollowerPerContainer
CHECK_DEADLOCK FALSE
