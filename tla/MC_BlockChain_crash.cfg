\* A crash between SetTotalDifficulty and Add leaves LTD ahead of LastBlock.
CONSTANTS
    g = g
    a1 = a1
    a2 = a2
    a3 = a3
    a4 = a4
    a5 = a5
    a6 = a6
    NoBlock = NoBlock
    Blocks <- TreeBlocks
    Genesis <- g
    Parent <- TreeParent
    Diff <- EqualDiff
    MaxCrashes = 1
SPECIFICATION Spec
INVARIANT HeadTDConsistent
CHECK_DEADLOCK FALSE
