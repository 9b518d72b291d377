SPECIFICATION MCSpec
CONSTANTS
    SignBit = 4
INVARIANTS
    RemovedIsRedundant
