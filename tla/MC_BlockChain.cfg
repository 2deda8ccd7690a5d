\* Crash-consistency of the block store: restarts after crashes between any two Puts, with unequal difficulties (reorgs).
CONSTANTS
    g = g
    a1 = a1
    a2 = a2
    a3 = a3
    a4 = a4
    a5 = a5
    a6 = a6
    NoBlock = NoBlock
    Blocks <- TreeBlocks
    Genesis <- g
    Parent <- TreeParent
    Diff <- MixedDiff
    MaxCrashes = 3
SPECIFICATION Spec
INVARIANT TypeOK InfoTDChained LastBlockStored ReadsAgree ChainHashesServed
PROPERTY ForkChoiceRefined
\* The node stops when no candidate block beats the head: it waits for blocks.
CHECK_DEADLOCK FALSE
