SPECIFICATION Spec
CONSTANTS
    Nodes = {n1, n2, n3, n4}
    Values = {a, b}
    NULL = NULL
INVARIANT
    HeapIsList
PROPERTY
    IsSequence
CHECK_DEADLOCK FALSE
