------------------------------ MODULE Reactor ------------------------------
(***************************************************************************)
(* The in-process event bus of monkreact/reactor.go: a ReactorEngine with  *)
(* one dispatcher goroutine, a buffered eventChannel, a one-slot drained   *)
(* channel used as an "idle" signal, a quit channel, and per-topic         *)
(* EventHandlers whose subscriber channels receive non-blocking sends.     *)
(*                                                                         *)
(* Goroutines: the dispatcher (dpc), caller threads that Post, Subscribe   *)
(* and Unsubscribe, owner threads that Start, Stop and Flush the reactor,  *)
(* and the consumers that read subscriber channels.  reactor.lock is       *)
(* `lock`; a thread holds it across every step between Lock and Unlock.    *)
(***************************************************************************)
EXTENDS Integers, Sequences, SequencesExt, FiniteSets

CONSTANTS
    Callers,          \* threads calling Post / Subscribe / Unsubscribe
    Owners,           \* threads calling Start / Stop / Flush
    Topics,           \* event names
    Chans,            \* subscriber channels (chan Event)
    EventBufferSize,  \* capacity of reactor.eventChannel (10 in the code)
    ChanCap,          \* capacity of a subscriber channel (1 in monk.go)
    MaxPosts,         \* bound on Post calls
    MaxSubs,          \* bound on the length of one handler's channel list
    DuplicateSubscribe, \* may a caller subscribe a channel twice to a topic?
    NoHolder,         \* model value: reactor.lock is free
    Dispatcher        \* model value: the dispatcher goroutine holds the lock

ASSUME /\ EventBufferSize \in Nat \ {0}
       /\ ChanCap \in Nat \ {0}
       /\ MaxPosts \in Nat /\ MaxSubs \in Nat \ {0}
       /\ DuplicateSubscribe \in BOOLEAN
       /\ Callers \cap Owners = {}

Threads == Callers \cup Owners
Event == [topic : Topics, id : 1..MaxPosts]

VARIABLES
    lock,       \* holder of reactor.lock
    running,    \* reactor.running
    dpc,        \* control point of the dispatcher goroutine
    dcur,       \* event (or quit status) the dispatcher has received
    ech,        \* reactor.eventChannel
    drained,    \* number of tokens in reactor.drained (capacity 1)
    quit,       \* reactor.quit: the status channels (owners) waiting in it
    handlers,   \* reactor.eventHandlers[t].chans (<<>> for a nil handler)
    chanBuf,    \* contents of every subscriber channel
    closed,     \* subscriber channels closed by their owners
    pc,         \* control point of every caller and owner thread
    ptopic,     \* topic of a Post in progress
    npost,      \* Post calls made so far
    lastDisp,   \* id of the last event the dispatcher handed out
    panicked    \* the process died on a runtime panic

vars == <<lock, running, dpc, dcur, ech, drained, quit, handlers, chanBuf,
          closed, pc, ptopic, npost, lastDisp, panicked>>

-----------------------------------------------------------------------------
(* Channel helpers.                                                        *)

\* A receive from reactor.drained when it holds a token.  If the dispatcher
\* is blocked sending the next token, Go moves its value into the buffer
\* and wakes it, so the buffer stays full.
TakeDrained ==
    /\ drained = 1
    /\ IF dpc = "sendDrained"
         THEN dpc' = "loop" /\ UNCHANGED drained
         ELSE drained' = 0 /\ UNCHANGED dpc

\* select { case <-reactor.drained: default: }
TryTakeDrained ==
    IF drained = 1 THEN TakeDrained ELSE UNCHANGED <<drained, dpc>>

\* EventHandler.Remove: range over the slice as it was, cutting each match
\* out with append(e.chans[:i], e.chans[i+1:]...).  The append shifts the
\* shared backing array, so later iterations read shifted elements, and a
\* cut at an index past the shrunken length panics.
RECURSIVE RemoveLoop(_, _, _, _)
RemoveLoop(arr, len, i, ch) ==
    IF i > Len(arr) THEN [chans |-> SubSeq(arr, 1, len), panic |-> FALSE]
    ELSE IF arr[i] # ch THEN RemoveLoop(arr, len, i + 1, ch)
    ELSE IF i > len THEN [chans |-> SubSeq(arr, 1, len), panic |-> TRUE]
    ELSE RemoveLoop([j \in DOMAIN arr |->
                        IF j >= i /\ j < len THEN arr[j + 1] ELSE arr[j]],
                    len - 1, i + 1, ch)

HandlerRemove(chans, ch) == RemoveLoop(chans, Len(chans), 1, ch)

\* EventHandler.Post: a non-blocking send to every subscribed channel, in
\* slice order; a full channel skips the event.
\* Mutant: a blocking-style append that ignores the channel's capacity.
OfferUnbounded(bufs, ch, e) == [bufs EXCEPT ![ch] = Append(@, e)]

Offer(bufs, ch, e) ==
    IF Len(bufs[ch]) < ChanCap THEN [bufs EXCEPT ![ch] = Append(@, e)]
                               ELSE bufs

HandlerPost(bufs, subs, e) == FoldLeft(LAMBDA b, ch : Offer(b, ch, e), bufs, subs)

\* EventHandler.Add: append the channel, whether or not it is already there.
HandlerAdd(chans, ch) == Append(chans, ch)

-----------------------------------------------------------------------------
Init ==
    /\ lock = NoHolder
    /\ running = FALSE
    /\ dpc = "idle"
    /\ dcur = NoHolder
    /\ ech = <<>>
    /\ drained = 0
    /\ quit = <<>>
    /\ handlers = [t \in Topics |-> <<>>]
    /\ chanBuf = [c \in Chans |-> <<>>]
    /\ closed = {}
    /\ pc = [t \in Threads |-> "idle"]
    /\ ptopic = [t \in Callers |-> CHOOSE x \in Topics : TRUE]
    /\ npost = 0
    /\ lastDisp = 0
    /\ panicked = FALSE

-----------------------------------------------------------------------------
(* Owner operations.                                                       *)

\* ReactorEngine.Start: under the lock, spawn the dispatcher if not running.
Start(o) ==
    /\ pc[o] = "idle" /\ lock = NoHolder /\ ~running
    /\ running' = TRUE
    /\ dpc' = "loop"
    /\ UNCHANGED <<lock, dcur, ech, drained, quit, handlers, chanBuf, closed,
                   pc, ptopic, npost, lastDisp, panicked>>

\* ReactorEngine.Stop reads running without the lock; a stopped reactor
\* makes Stop return at once (a stuttering step, not modelled).
Stop(o) ==
    /\ pc[o] = "idle" /\ running
    /\ pc' = [pc EXCEPT ![o] = "stopQuit"]
    /\ UNCHANGED <<lock, running, dpc, dcur, ech, drained, quit, handlers,
                   chanBuf, closed, ptopic, npost, lastDisp, panicked>>

\* reactor.quit <- status (capacity 1), then select on drained.
StopQuit(o) ==
    /\ pc[o] = "stopQuit" /\ Len(quit) < 1
    /\ quit' = Append(quit, o)
    /\ pc' = [pc EXCEPT ![o] = "stopDrain"]
    /\ UNCHANGED <<lock, running, dpc, dcur, ech, drained, handlers, chanBuf,
                   closed, ptopic, npost, lastDisp, panicked>>

\* Mutant: Stop without its select on reactor.drained.
StopDrainSkipped(o) ==
    /\ pc[o] = "stopDrain"
    /\ pc' = [pc EXCEPT ![o] = "stopWait"]
    /\ UNCHANGED <<lock, running, dpc, dcur, ech, drained, quit, handlers,
                   chanBuf, closed, ptopic, npost, lastDisp, panicked>>

StopDrain(o) ==
    /\ pc[o] = "stopDrain"
    /\ TryTakeDrained
    /\ pc' = [pc EXCEPT ![o] = "stopWait"]
    /\ UNCHANGED <<lock, running, dcur, ech, quit, handlers, chanBuf, closed,
                   ptopic, npost, lastDisp, panicked>>

\* ReactorEngine.Flush: <-reactor.drained.  Its callers flush a reactor
\* they have started; with several owners that check can be stale.
Flush(o) ==
    /\ pc[o] = "idle" /\ running
    /\ pc' = [pc EXCEPT ![o] = "flush"]
    /\ UNCHANGED <<lock, running, dpc, dcur, ech, drained, quit, handlers,
                   chanBuf, closed, ptopic, npost, lastDisp, panicked>>

FlushRecv(o) ==
    /\ pc[o] = "flush"
    /\ TakeDrained
    /\ pc' = [pc EXCEPT ![o] = "idle"]
    /\ UNCHANGED <<lock, running, dcur, ech, quit, handlers, chanBuf, closed,
                   ptopic, npost, lastDisp, panicked>>

-----------------------------------------------------------------------------
(* Caller operations.                                                      *)

\* ReactorEngine.Post: Lock; if running, send on eventChannel (blocking
\* while it is full, lock still held); then select on drained; Unlock.
\* A stopped reactor drops the event.
Post(c, t) ==
    /\ pc[c] = "idle" /\ lock = NoHolder /\ npost < MaxPosts
    /\ npost' = npost + 1
    /\ IF running
         THEN /\ lock' = c
              /\ pc' = [pc EXCEPT ![c] = "postSend"]
              /\ ptopic' = [ptopic EXCEPT ![c] = t]
         ELSE UNCHANGED <<lock, pc, ptopic>>
    /\ UNCHANGED <<running, dpc, dcur, ech, drained, quit, handlers, chanBuf,
                   closed, lastDisp, panicked>>

PostSend(c) ==
    /\ pc[c] = "postSend" /\ Len(ech) < EventBufferSize
    /\ ech' = Append(ech, [topic |-> ptopic[c], id |-> npost])
    /\ pc' = [pc EXCEPT ![c] = "postDrain"]
    /\ UNCHANGED <<lock, running, dpc, dcur, drained, quit, handlers, chanBuf,
                   closed, ptopic, npost, lastDisp, panicked>>

\* Mutant: Post without its select on reactor.drained.
PostDrainSkipped(c) ==
    /\ pc[c] = "postDrain"
    /\ lock' = NoHolder
    /\ pc' = [pc EXCEPT ![c] = "idle"]
    /\ UNCHANGED <<running, dpc, dcur, ech, drained, quit, handlers, chanBuf,
                   closed, ptopic, npost, lastDisp, panicked>>

PostDrain(c) ==
    /\ pc[c] = "postDrain"
    /\ TryTakeDrained
    /\ lock' = NoHolder
    /\ pc' = [pc EXCEPT ![c] = "idle"]
    /\ UNCHANGED <<running, dcur, ech, quit, handlers, chanBuf, closed,
                   ptopic, npost, lastDisp, panicked>>

\* ReactorEngine.Subscribe: under the lock, create the handler if nil and
\* append the channel (EventHandler.Add).
Subscribe(c, t, ch) ==
    /\ pc[c] = "idle" /\ lock = NoHolder
    /\ Len(handlers[t]) < MaxSubs
    /\ DuplicateSubscribe \/ ch \notin ToSet(handlers[t])
    /\ handlers' = [handlers EXCEPT ![t] = HandlerAdd(@, ch)]
    /\ UNCHANGED <<lock, running, dpc, dcur, ech, drained, quit, chanBuf,
                   closed, pc, ptopic, npost, lastDisp, panicked>>

\* ReactorEngine.Unsubscribe: under the lock, EventHandler.Remove; an empty
\* handler is set to nil.  A panic in Remove kills the process.
Unsubscribe(c, t, ch) ==
    /\ pc[c] = "idle" /\ lock = NoHolder
    /\ handlers[t] # <<>>
    /\ LET r == HandlerRemove(handlers[t], ch)
       IN /\ handlers' = [handlers EXCEPT ![t] = r.chans]
          /\ panicked' = r.panic
    /\ UNCHANGED <<lock, running, dpc, dcur, ech, drained, quit, chanBuf,
                   closed, pc, ptopic, npost, lastDisp>>

\* A consumer goroutine reads its subscriber channel.
Receive(ch) ==
    /\ chanBuf[ch] # <<>>
    /\ chanBuf' = [chanBuf EXCEPT ![ch] = Tail(@)]
    /\ UNCHANGED <<lock, running, dpc, dcur, ech, drained, quit, handlers,
                   closed, pc, ptopic, npost, lastDisp, panicked>>

-----------------------------------------------------------------------------
(* The dispatcher goroutine started by Start.                              *)

\* The select of the loop: a ready quit or event case, else default.
DSelect ==
    /\ dpc = "loop"
    /\ \/ /\ quit # <<>>
          /\ dcur' = Head(quit) /\ quit' = Tail(quit)
          /\ dpc' = "quitLock"
          /\ UNCHANGED ech
       \/ /\ ech # <<>>
          /\ dcur' = Head(ech) /\ ech' = Tail(ech)
          /\ dpc' = "dispatchLock"
          /\ UNCHANGED quit
       \/ /\ quit = <<>> /\ ech = <<>>
          /\ dpc' = "sendDrained"
          /\ UNCHANGED <<dcur, ech, quit>>
    /\ UNCHANGED <<lock, running, drained, handlers, chanBuf, closed, pc,
                   ptopic, npost, lastDisp, panicked>>

\* default: reactor.drained <- true, blocking while the slot is full.
DSendDrained ==
    /\ dpc = "sendDrained" /\ drained = 0
    /\ drained' = 1
    /\ dpc' = "loop"
    /\ UNCHANGED <<lock, running, dcur, ech, quit, handlers, chanBuf, closed,
                   pc, ptopic, npost, lastDisp, panicked>>

\* ReactorEngine.dispatch: Lock, look the handler up, EventHandler.Post,
\* Unlock.  Nothing in between blocks, so the critical section is one step.
\* A send on a closed subscriber channel panics.
DDispatch ==
    /\ dpc = "dispatchLock" /\ lock = NoHolder
    /\ LET subs == handlers[dcur.topic]
       IN /\ chanBuf' = HandlerPost(chanBuf, subs, dcur)
          /\ panicked' = (ToSet(subs) \cap closed # {})
    /\ lastDisp' = dcur.id
    /\ dpc' = "loop"
    /\ UNCHANGED <<lock, running, dcur, ech, drained, quit, handlers, closed,
                   pc, ptopic, npost>>

\* case status := <-reactor.quit: Lock, running = false, status <- nil
\* (unbuffered: waits for the Stop caller), return (deferred Unlock).
DQuit ==
    /\ dpc = "quitLock" /\ lock = NoHolder
    /\ lock' = Dispatcher
    /\ running' = FALSE
    /\ dpc' = "sendStatus"
    /\ UNCHANGED <<dcur, ech, drained, quit, handlers, chanBuf, closed, pc,
                   ptopic, npost, lastDisp, panicked>>

DStatus ==
    /\ dpc = "sendStatus" /\ pc[dcur] = "stopWait"
    /\ pc' = [pc EXCEPT ![dcur] = "idle"]
    /\ lock' = NoHolder
    /\ dpc' = "idle"
    /\ UNCHANGED <<running, dcur, ech, drained, quit, handlers, chanBuf,
                   closed, ptopic, npost, lastDisp, panicked>>

-----------------------------------------------------------------------------
DispatcherNext == DSelect \/ DSendDrained \/ DDispatch \/ DQuit \/ DStatus

OwnerNext(o) ==
    Start(o) \/ Stop(o) \/ StopQuit(o) \/ StopDrain(o) \/ Flush(o) \/ FlushRecv(o)

CallerNext(c) ==
    \/ \E t \in Topics : Post(c, t)
    \/ PostSend(c) \/ PostDrain(c)
    \/ \E t \in Topics, ch \in Chans : Subscribe(c, t, ch) \/ Unsubscribe(c, t, ch)

Next ==
    /\ ~panicked
    /\ \/ DispatcherNext
       \/ \E o \in Owners : OwnerNext(o)
       \/ \E c \in Callers : CallerNext(c)
       \/ \E ch \in Chans : Receive(ch)

\* Goroutines that can run eventually run (WF); the dispatcher's Lock is
\* granted eventually although the lock is only intermittently free
\* (sync.Mutex hands a lock to a waiter starved for 1ms: SF).  Callers and
\* owners are free to stop issuing new calls; a call in progress finishes.
Fairness ==
    /\ WF_vars(DSelect) /\ WF_vars(DSendDrained) /\ WF_vars(DStatus)
    /\ SF_vars(DDispatch) /\ SF_vars(DQuit)
    /\ \A o \in Owners : WF_vars(StopQuit(o)) /\ WF_vars(StopDrain(o))
                         /\ SF_vars(FlushRecv(o))
    /\ \A c \in Callers : WF_vars(PostSend(c)) /\ WF_vars(PostDrain(c))

Spec == Init /\ [][Next]_vars /\ Fairness

-----------------------------------------------------------------------------
(* Properties.                                                             *)

TypeOK ==
    /\ lock \in Threads \cup {NoHolder, Dispatcher}
    /\ running \in BOOLEAN
    /\ dpc \in {"idle", "loop", "sendDrained", "dispatchLock", "quitLock",
                "sendStatus"}
    /\ dcur \in Event \cup Owners \cup {NoHolder}
    /\ ech \in Seq(Event) /\ Len(ech) <= EventBufferSize
    /\ drained \in 0..1
    /\ quit \in Seq(Owners) /\ Len(quit) <= 1
    /\ handlers \in [Topics -> Seq(Chans)]
    /\ chanBuf \in [Chans -> Seq(Event)]
    /\ \A ch \in Chans : Len(chanBuf[ch]) <= ChanCap
    /\ closed \subseteq Chans
    /\ pc \in [Threads -> {"idle", "postSend", "postDrain", "stopQuit",
                           "stopDrain", "stopWait", "flush"}]
    /\ npost \in 0..MaxPosts /\ lastDisp \in 0..MaxPosts
    /\ panicked \in BOOLEAN

\* Every event Post put on eventChannel is eventually handed to the
\* subscribers unless the dispatcher stops first: the drained token that
\* parks the idle dispatcher must always be taken back by a later Post.
EventuallyDispatched ==
    \A i \in 1..MaxPosts :
        (\E k \in DOMAIN ech : ech[k].id = i) ~> (lastDisp >= i \/ dpc = "idle")

\* Every Stop and Flush call of an owner eventually returns.
OwnerCallsReturn == \A o \in Owners : (pc[o] # "idle") ~> (pc[o] = "idle")

\* Post never waits forever: a Post blocked on a full eventChannel while
\* holding reactor.lock, with the dispatcher (the only reader) waiting
\* for that lock in dispatch or in the quit case, is a deadlock.
NoPostDeadlock ==
    ~ \E c \in Callers :
        /\ pc[c] = "postSend" /\ lock = c
        /\ Len(ech) = EventBufferSize
        /\ dpc \in {"dispatchLock", "quitLock"}

\* The spec's stop(): when Stop returns, every event Post accepted has
\* been dispatched (none is left in eventChannel).
StopDrains ==
    [][\A o \in Owners : (pc[o] = "stopWait" /\ pc'[o] = "idle") => ech = <<>>]_vars

=============================================================================
