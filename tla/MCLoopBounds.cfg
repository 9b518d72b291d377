SPECIFICATION MCSpec
CONSTANTS
    SignBit = 4
INVARIANTS
    BoundsDescribeTest
    RemovedFromBodyHolds
