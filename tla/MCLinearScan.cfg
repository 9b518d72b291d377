SPECIFICATION MCSpec
CONSTANTS
    MaxPosition = 4
    NumTotalRegs = 4
    Intervals <- MCIntervals
    Positions <- MCPositions
INVARIANTS
    NoConflict
    RegisterPartition
    SpillOnlyUnderPressure
PROPERTIES
    FurthestEndSpilled
    ImplementsAssignment
