SPECIFICATION MCSpec
CONSTANTS
    NumBlocks = 4
    BodySize = 1
    MaxUses = 2
INVARIANTS
    RangesApart
    CoversLiveness
    HoldsNothingElse
    StartsAtDefinition
