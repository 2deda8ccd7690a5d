\* One targeted subscription: Subscribe(name, newBlock, a1) listens on
\* "object:a1" but UnSubscribe removes it from "newBlock".
CONSTANTS
    Callers = {m, chain}
    MonkThread = m
    Chain = chain
    Owners = {o1}
    Topics = {newBlock, objA}
    objA = objA
    a1 = a1
    NewBlock = newBlock
    MonkEvents = {newBlock}
    Names = {newBlock, u1}
    Targets <- OneTarget
    ObjTopic <- OneObjTopic
    NoTarget = NoTarget
    EventBufferSize = 2
    ChanCap = 1
    MaxPosts = 2
    MaxSubs = 2
    MaxChans = 2
    DuplicateSubscribe = FALSE
    NoHolder = NoHolder
    Dispatcher = Dispatcher
    MiningConfig = TRUE
SPECIFICATION Spec
INVARIANT NoReactorSendOnClosed
