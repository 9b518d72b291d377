SPECIFICATION Spec
CONSTANTS
    None = None
    b1 = b1
    b2 = b2
    b3 = b3
    Blocks <- MCBlocks
    PhiBlock <- MCPhiBlock
SYMMETRY Symmetry
INVARIANTS
    EdgesAgree
    PhiInputsAligned
CHECK_DEADLOCK FALSE
