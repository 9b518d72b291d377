SPECIFICATION Spec
CONSTANTS
    FullWidth = 3
    TypeWidth = 2
    Callers <- MCCallers
    Callees <- MCCallees
INVARIANTS
    ResultPreserved
    UsesRecorded
    WellPlaced
PROPERTIES
    Terminates
