\* One owner and one poster: the owner's Stop races events still queued in
\* eventChannel.
CONSTANTS
    Callers = {c1}
    Owners = {o1}
    Topics = {t1, t2}
    Chans = {k1, k2}
    EventBufferSize = 2
    ChanCap = 1
    MaxPosts = 2
    MaxSubs = 2
    DuplicateSubscribe = FALSE
    NoHolder = NoHolder
    Dispatcher = Dispatcher
SPECIFICATION Spec
PROPERTY StopDrains
