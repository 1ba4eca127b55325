CONSTANTS
    Objs <- MCTwoObjs
    NULL = NULL
    MaxOpens = 3

SPECIFICATION Spec

INVARIANT CloseOfClosedPoolThrows
