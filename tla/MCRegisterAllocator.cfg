SPECIFICATION Spec
CONSTANTS
    MaxPosition = 4
    NumTotalRegs = 4
    Intervals <- MCIntervals
    Positions <- MCPositions
INVARIANTS
    ActiveSorted
PROPERTIES
    ImplementsLinearScan
    EventuallyAllPlaced
