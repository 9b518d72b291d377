SPECIFICATION Spec
CONSTANTS
    Phis = {p1, p2, p3}
    Others = {x1, x2}
    Registers = {r0, r1, r2}
    Slots = {s8}
    Reserved = temp
    TempMove = TempMove
INVARIANTS ParallelCopy
