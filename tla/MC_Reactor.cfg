\* One owner (the node's Start/Stop), one caller, two topics, two
\* subscriber channels; no more Posts than eventChannel slots.
CONSTANTS
    Callers = {c1}
    Owners = {o1}
    Topics = {t1, t2}
    Chans = {k1, k2}
    EventBufferSize = 2
    ChanCap = 1
    MaxPosts = 2
    MaxSubs = 2
    DuplicateSubscribe = FALSE
    NoHolder = NoHolder
    Dispatcher = Dispatcher
SPECIFICATION Spec
INVARIANT TypeOK
PROPERTY EventuallyDispatched OwnerCallsReturn
