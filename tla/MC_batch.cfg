SPECIFICATION BatchSpec
CONSTANTS
    Names = {belt, drill}
    Places = {p, q}
    Capacity = 2
    Fits <- MCFits
    MaxOps = 4
    MaxCount = 2
SYMMETRY MCSymmetry
INVARIANTS NoDuplication Restorable
PROPERTIES ImplementsTransaction
CHECK_DEADLOCK FALSE
