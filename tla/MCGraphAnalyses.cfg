SPECIFICATION MCSpec
CONSTANTS
    None = None
    Blocks <- MCBlocks
    Start <- MCStart
    Programs <- MCPrograms
    Size = 6
INVARIANTS
    IsReversePostorder
    FingersStandOnTheTree
    NoDominatorLost
    DominatesIsDominance
    BackEdgesCutCycles
    LoopsAreNatural
    TreeIsNesting
    RemovedIsCovered
    NothingLeftToRemove
PROPERTIES
    IdomsOnlyClimb
    Terminates
