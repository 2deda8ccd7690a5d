\* Untargeted subscriptions, checking the forwarder against close(c.ch).
CONSTANTS
    Callers = {m, chain}
    MonkThread = m
    Chain = chain
    Owners = {o1}
    Topics = {newBlock, objA}
    objA = objA
    a1 = a1
    NewBlock = newBlock
    MonkEvents = {newBlock}
    Names = {newBlock, u1}
    Targets <- NoTargets
    ObjTopic <- NoObjTopic
    NoTarget = NoTarget
    EventBufferSize = 2
    ChanCap = 1
    MaxPosts = 2
    MaxSubs = 2
    MaxChans = 2
    DuplicateSubscribe = FALSE
    NoHolder = NoHolder
    Dispatcher = Dispatcher
    MiningConfig = TRUE
SPECIFICATION Spec
INVARIANT NoForwardOnClosed
