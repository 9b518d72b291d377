SPECIFICATION Spec
CONSTANTS
    Null = Null
    Blocks = {b1, b2, b3}
    Insts = {i1, i2, i3, i4}
INVARIANTS
    TypeOK
    WellLinked
    WalksReachLast
PROPERTIES
    ImplementsBlockSeq
