\* Vm model (no hook contracts registered): GenDoug checkperm in the block's state.
CONSTANTS
    a1 = a1  a2 = a2  a3 = a3
    Addrs <- MCAddrs
    Ring <- MCRing
    PermNames <- MCPermNames
    GenesisPerms <- MCGenesisPerms
    TxSpace <- MCTxSpace
    Public = {}
    MaxGasTx = 1
    BlockTime = 1
    Consensus = "robin"
    Model = "vm"
    Adversary = 0
    NoTx = NoTx  NoAddr = NoAddr  NoBlock = NoBlock
    MaxBlocks = 3  MaxTime = 3  MaxPool = 2
SPECIFICATION Spec
INVARIANT MinerPermittedInParent
CHECK_DEADLOCK FALSE
