SPECIFICATION Spec
CONSTANTS
    w1 = w1
    w2 = w2
    Writers = {w1, w2}
    Blocks <- MCBlocks
    Inodes = {i1, i2, i3}
    None = None
    Hole = Hole
SYMMETRY MCSymmetry
INVARIANTS
    TypeOK
    TornOnlyIfMixed
    FinishedLeavesFile
PROPERTIES
    WritesAreAtomic
