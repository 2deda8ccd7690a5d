\* One caller posting four events into two eventChannel slots: a Post
\* blocks on the full channel while holding reactor.lock.
CONSTANTS
    Callers = {c1}
    Owners = {o1}
    Topics = {t1, t2}
    Chans = {k1, k2}
    EventBufferSize = 2
    ChanCap = 1
    MaxPosts = 4
    MaxSubs = 2
    DuplicateSubscribe = FALSE
    NoHolder = NoHolder
    Dispatcher = Dispatcher
SPECIFICATION Spec
INVARIANT NoPostDeadlock
