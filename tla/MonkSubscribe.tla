--------------------------- MODULE MonkSubscribe ---------------------------
(***************************************************************************)
(* The event bridge of monk/monk.go over the reactor: Monk.Subscribe makes *)
(* a reactor channel th_ch (capacity 1), subscribes it to the event or to  *)
(* "object:"+target, and starts a forwarder goroutine that copies every    *)
(* event from th_ch onto an unbuffered channel ch handed to the user;      *)
(* Monk.UnSubscribe unsubscribes c.event, closes th_ch, then closes ch;    *)
(* Monk.Commit starts mining and waits for one event on the "newBlock"     *)
(* subscription.  The reactor itself is the Reactor module, instantiated   *)
(* over the same variables; the chain posts events as a Reactor caller.   *)
(***************************************************************************)
EXTENDS Integers, Sequences, SequencesExt, FiniteSets

CONSTANTS
    Callers, Owners, Topics, EventBufferSize, ChanCap, MaxPosts, MaxSubs,
    DuplicateSubscribe, NoHolder, Dispatcher,
    MaxChans,     \* channels Monk.Subscribe may create (th_ch and ch pairs)
    Names,        \* subscription names passed to Subscribe / UnSubscribe
    NewBlock,     \* the "newBlock" event name (also the name Start uses)
    MonkEvents,   \* event names a user subscribes to
    Targets,      \* addresses a user may target
    ObjTopic,     \* ObjTopic[a] is the reactor topic "object:"+a
    NoTarget,     \* model value: target == ""
    MonkThread,   \* the Reactor caller that runs Subscribe / UnSubscribe
    Chain,        \* the Reactor caller that posts chain events
    MiningConfig  \* m.config.Mining: Start turns mining on

ASSUME /\ MonkThread \in Callers /\ Chain \in Callers /\ MonkThread # Chain
       /\ NewBlock \in MonkEvents /\ MonkEvents \subseteq Topics
       /\ ObjTopic \in [Targets -> Topics \ MonkEvents]
       /\ NewBlock \in Names /\ MiningConfig \in BOOLEAN

Chans == 1..MaxChans

VARIABLES lock, running, dpc, dcur, ech, drained, quit, handlers, chanBuf,
          closed, pc, ptopic, npost, lastDisp, panicked

R == INSTANCE Reactor

VARIABLES
    subs,      \* monk.chans: name -> [k: th_ch/ch pair, event: c.event], or None
    fpc,       \* control point of the forwarder goroutine of each pair
    fev,       \* the event a forwarder is sending on ch
    fclosed,   \* pairs whose user channel ch is closed
    mpc,       \* control point of UnSubscribe: "idle", "closeReact", "closeCh"
    mk,        \* the pair UnSubscribe is tearing down
    cpc,       \* control point of Commit
    ck,        \* the channel pair Commit receives on (0: nil channel)
    mining,    \* thelonious mining flag (StartMining / StopMining)
    fpanic,    \* a forwarder died sending on a closed ch
    started    \* monk.started

None == [k |-> 0, event |-> NewBlock]
NoEvent == [topic |-> NewBlock, id |-> 0]

monkVars == <<subs, fpc, fev, fclosed, mpc, mk, cpc, ck, mining, fpanic, started>>
reactorVars == <<lock, running, dpc, dcur, ech, drained, quit, handlers,
                 chanBuf, closed, pc, ptopic, npost, lastDisp, panicked>>
vars == <<reactorVars, monkVars>>

\* The reactor topic of Subscribe(name, event, target).
TopicOf(event, target) == IF target = NoTarget THEN event ELSE ObjTopic[target]

Init ==
    /\ R!Init
    /\ subs = [n \in Names |-> None]
    /\ fpc = [k \in Chans |-> "unused"]
    /\ fev = [k \in Chans |-> NoEvent]
    /\ fclosed = {}
    /\ mpc = "idle" /\ mk = 0
    /\ cpc = "idle" /\ ck = 0
    /\ mining = FALSE
    /\ fpanic = FALSE
    /\ started = FALSE

-----------------------------------------------------------------------------
\* Monk.Subscribe: a fresh th_ch subscribed under the reactor lock, the
\* name bound to it (an earlier binding of the name is overwritten), and
\* the forwarder goroutine started.
MonkSubscribeOp(name, event, target) ==
    /\ mpc = "idle"
    /\ \E k \in Chans :
        /\ fpc[k] = "unused"
        /\ \A j \in Chans : j < k => fpc[j] # "unused"
        /\ R!Subscribe(MonkThread, TopicOf(event, target), k)
        /\ subs' = [subs EXCEPT ![name] = [k |-> k, event |-> event]]
        /\ fpc' = [fpc EXCEPT ![k] = "recv"]
    /\ UNCHANGED <<fev, fclosed, mpc, mk, cpc, ck, fpanic>>

\* Mutant: UnSubscribe without the reactor.Unsubscribe call.
MonkUnsubscribeSkipped(name) ==
    /\ mpc = "idle" /\ subs[name] # None
    /\ mk' = subs[name].k
    /\ mpc' = "closeReact"
    /\ UNCHANGED reactorVars
    /\ UNCHANGED <<subs, fpc, fev, fclosed, cpc, ck, mining, fpanic, started>>

\* Monk.UnSubscribe, first statement: reactor.Unsubscribe(c.event, c.reactCh)
\* (a no-op when the event has no handler).
MonkUnsubscribe(name) ==
    /\ mpc = "idle" /\ subs[name] # None
    /\ LET c == subs[name]
       IN /\ \/ R!Unsubscribe(MonkThread, c.event, c.k)
             \/ /\ lock = NoHolder /\ handlers[c.event] = <<>>
                /\ UNCHANGED reactorVars
          /\ mk' = c.k
    /\ mpc' = "closeReact"
    /\ UNCHANGED <<subs, fpc, fev, fclosed, cpc, ck, mining, fpanic, started>>

\* close(c.reactCh)
MonkCloseReact ==
    /\ mpc = "closeReact"
    /\ closed' = closed \cup {mk}
    /\ mpc' = "closeCh"
    /\ UNCHANGED <<lock, running, dpc, dcur, ech, drained, quit, handlers,
                   chanBuf, pc, ptopic, npost, lastDisp, panicked>>
    /\ UNCHANGED <<subs, fpc, fev, fclosed, mk, cpc, ck, mining, fpanic, started>>

\* close(c.ch); delete(monk.chans, name).  A forwarder blocked sending on
\* ch panics.
MonkCloseCh ==
    /\ mpc = "closeCh"
    /\ fclosed' = fclosed \cup {mk}
    /\ fpanic' = (fpc[mk] = "send")
    /\ subs' = [n \in Names |-> IF subs[n].k = mk THEN None ELSE subs[n]]
    /\ mpc' = "idle"
    /\ UNCHANGED reactorVars
    /\ UNCHANGED <<fpc, fev, mk, cpc, ck, mining, started>>

-----------------------------------------------------------------------------
\* The forwarder: eve, more := <-th_ch; a closed, empty th_ch ends it;
\* otherwise it sends the event on ch (a closed ch panics).
FwdRecv(k) ==
    /\ fpc[k] = "recv"
    /\ \/ /\ chanBuf[k] # <<>>
          /\ fev' = [fev EXCEPT ![k] = Head(chanBuf[k])]
          /\ chanBuf' = [chanBuf EXCEPT ![k] = Tail(@)]
          /\ fpc' = [fpc EXCEPT ![k] = "send"]
          /\ fpanic' = (k \in fclosed)
       \/ /\ chanBuf[k] = <<>> /\ k \in closed
          /\ fpc' = [fpc EXCEPT ![k] = "done"]
          /\ UNCHANGED <<fev, chanBuf, fpanic>>
    /\ UNCHANGED <<lock, running, dpc, dcur, ech, drained, quit, handlers,
                   closed, pc, ptopic, npost, lastDisp, panicked>>
    /\ UNCHANGED <<subs, fclosed, mpc, mk, cpc, ck, mining, started>>

\* The user (a decerver script) reads ch: the unbuffered send completes.
UserRead(k) ==
    /\ fpc[k] = "send" /\ k \notin fclosed
    /\ fpc' = [fpc EXCEPT ![k] = "recv"]
    /\ UNCHANGED reactorVars
    /\ UNCHANGED <<subs, fev, fclosed, mpc, mk, cpc, ck, mining, fpanic, started>>

-----------------------------------------------------------------------------
\* Monk.Commit: StartMining, then receive on m.chans["newBlock"].ch, read
\* once: with no "newBlock" subscription that is a nil channel and the
\* receive never returns.
Commit ==
    /\ cpc = "idle"
    /\ mining' = TRUE
    /\ ck' = subs[NewBlock].k
    /\ cpc' = "wait"
    /\ UNCHANGED reactorVars
    /\ UNCHANGED <<subs, fpc, fev, fclosed, mpc, mk, fpanic, started>>

\* The receive completes the forwarder's send, or returns the zero value
\* once UnSubscribe has closed the channel; then StopMining.
CommitRecv ==
    /\ cpc = "wait" /\ ck # 0
    /\ \/ /\ fpc[ck] = "send" /\ ck \notin fclosed
          /\ fpc' = [fpc EXCEPT ![ck] = "recv"]
       \/ /\ ck \in fclosed
          /\ UNCHANGED fpc
    /\ mining' = FALSE
    /\ cpc' = "idle"
    /\ UNCHANGED reactorVars
    /\ UNCHANGED <<subs, fev, fclosed, mpc, mk, ck, fpanic, started>>

-----------------------------------------------------------------------------
(* The node's lifecycle as the module host drives it.                      *)

\* MonkModule.Start: thelonious.Start (the reactor owner starts the
\* reactor), started = true, StartMining when the config says so, then
\* Subscribe("newBlock", "newBlock", "").  The host calls Start once, and
\* nothing clears started, so ~started is that single call.
MonkStart ==
    /\ ~started
    /\ started' = TRUE
    /\ mining' = (mining \/ MiningConfig)
    /\ MonkSubscribeOp(NewBlock, NewBlock, NoTarget)

\* Monk.Stop: nothing unless started; StopMining, thelonious.Stop (outside
\* src/), then monk = &Monk{...}, which only rebinds the receiver, so
\* started stays true and a later Stop runs the body again.
MonkStop ==
    /\ started
    /\ mining' = FALSE
    /\ UNCHANGED reactorVars
    /\ UNCHANGED <<subs, fpc, fev, fclosed, mpc, mk, cpc, ck, fpanic, started>>

-----------------------------------------------------------------------------
\* A process that panicked has stopped for good.
Halted == (panicked \/ fpanic) /\ UNCHANGED vars

Next ==
    \/ /\ ~panicked /\ ~fpanic
       /\ \/ R!DispatcherNext /\ UNCHANGED monkVars
          \/ \E o \in Owners : R!OwnerNext(o) /\ UNCHANGED monkVars
          \/ \E t \in Topics : R!Post(Chain, t) /\ UNCHANGED monkVars
          \/ (R!PostSend(Chain) \/ R!PostDrain(Chain)) /\ UNCHANGED monkVars
          \/ \E n \in Names, e \in MonkEvents, a \in Targets \cup {NoTarget} :
                MonkSubscribeOp(n, e, a) /\ UNCHANGED <<mining, started>>
          \/ \E n \in Names : MonkUnsubscribe(n)
          \/ MonkCloseReact \/ MonkCloseCh
          \/ \E k \in Chans : FwdRecv(k) \/ UserRead(k)
          \/ Commit \/ CommitRecv
          \/ MonkStart \/ MonkStop
    \/ Halted

Spec == Init /\ [][Next]_vars

-----------------------------------------------------------------------------
TypeOK ==
    /\ R!TypeOK
    /\ subs \in [Names -> [k : Chans \cup {0}, event : MonkEvents]]
    /\ fpc \in [Chans -> {"unused", "recv", "send", "done"}]
    /\ fclosed \subseteq Chans
    /\ mpc \in {"idle", "closeReact", "closeCh"} /\ mk \in Chans \cup {0}
    /\ cpc \in {"idle", "wait"} /\ ck \in Chans \cup {0}
    /\ mining \in BOOLEAN /\ fpanic \in BOOLEAN /\ started \in BOOLEAN

\* The reactor never sends on a channel Monk.UnSubscribe closed: the
\* channel must leave every handler before close(c.reactCh).
NoReactorSendOnClosed == ~panicked

\* A forwarder never sends on a user channel UnSubscribe closed.
NoForwardOnClosed == ~fpanic

=============================================================================
