\* StdLib model, round-robin consensus over a three-miner ring.
CONSTANTS
    a1 = a1  a2 = a2  a3 = a3
    Addrs <- MCAddrs
    Ring <- MCRing
    PermNames <- MCPermNames
    GenesisPerms <- MCGenesisPerms
    TxSpace <- MCTxSpace
    Public = {}
    MaxGasTx = 1
    BlockTime = 1
    Consensus = "robin"
    Model = "stdlib"
    Adversary = 0
    NoTx = NoTx  NoAddr = NoAddr  NoBlock = NoBlock
    MaxBlocks = 3  MaxTime = 3  MaxPool = 1
SPECIFICATION FairSpec
INVARIANT TypeOK
INVARIANT SomeoneParticipates
PROPERTY ChainGrows
CHECK_DEADLOCK FALSE
