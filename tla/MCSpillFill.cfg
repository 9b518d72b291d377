SPECIFICATION MCSpec
CONSTANTS
    Phis = {p1, p2, p3, p4}
    Others = {x1, x2}
    Registers = {r0, r1, r2, r3, r4}
    Slots = {s8, s16}
    Reserved = temp
    Reserved2 = temp2
    TempMove = TempMove
    Tails <- MCTails
INVARIANTS
    NothingLost
    ReloadsAreInvisible
    TerminatorReadsItsInputs
PROPERTIES
    OneSavedValue
    AllMovesEmitted
