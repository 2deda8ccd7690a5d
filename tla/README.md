# TLA+ models of thelonious

This directory has TLA+ specifications of the concurrent and persistent parts
of thelonious (`src/`), with the TLC configurations that check them. Each
module models one component. Its definitions are translated from the Go source;
`PROJECT.json` maps every modelled definition to the lines it stands for.

## The system and its parts

| Part | Source | State | Operations | Interacts with |
|---|---|---|---|---|
| Reactor (event bus) | `monkreact/reactor.go` | `lock`, `running`, buffered `eventChannel` (10), `quit` (1), `drained` (1), `eventHandlers` (topic → slice of channels) | Start, Stop, Flush, Subscribe, Unsubscribe, Post; dispatcher goroutine; dispatch; EventHandler.Post/Add/Remove | chain (posts `newBlock`, `object:<addr>`…), Monk bridge (subscribes) |
| Monk event bridge | `monk/monk.go` 475–545 | `monk.chans` (name → th_ch, ch, event, target), one forwarder goroutine per subscription | Subscribe, UnSubscribe, Commit | Reactor; user scripts reading `ch`; the miner (Start/StopMining) |
| Block store | `monkchain/block_chain.go` | in memory `CurrentBlock`, `LastBlockHash`, `LastBlockNumber`, `TD`; in the KV store block by hash, `hash‖Info`, `LastBlock`, `LTD` | NewBlockChain/setLastBlock, SetTotalDifficulty, Add (writeBlockInfo), CalcTotalDiff, GetBlock, GetBlockByNumber, GetBlockBack, NewBlock | block processor (outside `src/`) calls SetTotalDifficulty then Add |
| State cache | `monkstate/state.go` | `Trie`, `stateObjects` cache, `mut` | Get/New/GetOrNewStateObject, Update, Sync, Reset, Copy, Set | block processing, protocol models |
| Protocol models | `monkdoug/models.go` | `Adversary` flag; configuration read from the GenDoug contract state | Participate, Difficulty, ValidatePerm, ValidateBlock, ValidateTx for Yes, No, Vm, StdLib, Eth | miner (Participate), chain manager (ValidateBlock), tx pool (ValidateTx) |
| Tests and tools | `monkchain/chain_manager_test.go`, `ethtest/test_node.go`, `ethchain/doug.go`, `monkcrypto/crypto.go` | none that persists | fork-choice tests, manual node tests, genesis construction, hashes | — |

### Behaviours that make this code hard

* **Goroutine interleavings around one mutex.** Reactor.Post holds
  `reactor.lock` across a *blocking* channel send. The dispatcher takes the same
  lock for every dispatch and for its quit case.
* **A liveness token.** Post, Stop and Flush make progress only because the
  dispatcher offers a token on `drained` whenever it finds both of its
  channels empty. Go's buffered-channel handoff rule matters here.
* **Shutdown races.** Stop reads `running` without the lock. A Flush or a
  second Stop can race it.
* **Closed channels.** Monk.UnSubscribe closes the reactor-side channel and the
  user channel while the dispatcher and the forwarder may still send on them.
  In Go that is a panic.
* **Crashes between KV writes.** SetTotalDifficulty and Add write `LTD`,
  `Info`, the block and `LastBlock` in four separate Puts.

## Modules

| Module | Models | Composes |
|---|---|---|
| `Reactor` | reactor.go entirely | — |
| `MonkSubscribe` | monk.go Subscribe, UnSubscribe, Commit, and MonkModule.Init/Start and Monk.Stop | `R == INSTANCE Reactor` over the same variables; the channels are `1..MaxChans` |
| `BlockChain` | block_chain.go store, head and lookups, with crash/restart | `FC == INSTANCE ForkChoice WITH head <- dbLast`, checked as `ForkChoiceRefined` |
| `ForkChoice` | abstract: spec 4.5, the head starts at genesis and is only replaced by a block of strictly greater total difficulty | — |
| `Ledger` | abstract: what the world state promises the block processor | — |
| `StateCache` | state.go object cache, trie, Copy/Set, Update/Sync/Reset, under a processor and a validator | `L == INSTANCE Ledger WITH …`, checked as `LedgerRefined` |
| `Protocol` | models.go Participate, ValidateBlock, ValidateTx of the five models, driven by a miner, peers, a tx pool and the chain manager | — |
| `MC_Reactor`, `MC_MonkSubscribe`, `MC_BlockChain`, `MC_StateCache`, `MC_Protocol` | model values and definitions for TLC | extend the module above |

### Reactor

Threads are model values: `Callers` (call Post, Subscribe, Unsubscribe) and
`Owners` (call Start, Stop, Flush). `pc[t]` is the point a thread is blocked at
inside a call. The dispatcher goroutine's control point is `dpc`:

* `loop`: at the select;
* `sendDrained`: at `drained <- true`;
* `dispatchLock`, `quitLock`: waiting for `reactor.lock`;
* `sendStatus`: at `status <- nil`;
* `idle`: not running.

Channels are sequences with a capacity guard:

* `ech` is `eventChannel`, with capacity `EventBufferSize`;
* `quit` has capacity 1;
* `drained` is 0 or 1;
* `chanBuf[k]` is subscriber channel `k`, with capacity `ChanCap`.

A receive from a full `drained` while the dispatcher is blocked sending on it
follows Go's rule: the sender's value moves into the buffer (`TakeDrained`).
The unbuffered `status` send is a rendezvous (`DStatus`).
`EventHandler.Remove` is the recursive `RemoveLoop`. It reproduces how the
range loop reads the shared backing array after each `append` shift, and the
slice-bounds panic.

A blocking call is split at each point where it can block: Post becomes
`Post`/`PostSend`/`PostDrain`, and Stop becomes `Stop`/`StopQuit`/`StopDrain`,
with the rendezvous in `DStatus`. Everything between two blocking points is
one step. `dispatch` holds the lock across a loop of non-blocking sends, so it
is atomic.

`Flush` is only `<-reactor.drained` in the code. The model lets an owner
call it only while `running` is set. This guard is a contract on the caller,
not a check the code makes: Flush on a reactor that was never started, or that
has been stopped, blocks forever. `OwnerCallsReturn` is checked with callers
that keep this contract. With a single owner, `running` cannot change between
its own check and its Flush, so the contract holds. With two owners the
check can go stale (see "Two owners racing Stop" below).

### MonkSubscribe

`subs` is `monk.chans`. A subscription owns pair `k`: `chanBuf[k]` is th_ch
(capacity 1), `fclosed` holds the user channels `ch` that have been closed, and
`fpc[k]` is its forwarder's control point. UnSubscribe is three steps:

1. `reactor.Unsubscribe(c.event, …)`;
2. `close(c.reactCh)`;
3. `close(c.ch)` and the delete from `monk.chans`.

Commit is StartMining, which records in `ck` the `newBlock` subscription's
pair (`ck = 0` is a nil channel, on which the receive blocks forever),
followed by `CommitRecv`, the receive on that `ch`. `Chain` is a reactor caller that posts chain events. A panic of any
goroutine halts the model (`Halted`).

The node's lifecycle is modelled as well:
* `Init` is `MonkModule.Init`, which makes `monk.chans` empty.
* `MonkStart` is `MonkModule.Start`. It sets `started`, turns mining on when
  `MiningConfig` (`config.Mining`) is set, and makes the `newBlock`
  subscription that `Commit` relies on. It goes through the same
  `MonkSubscribeOp`, so it overwrites an earlier user subscription named
  `newBlock`.
* `MonkStop` is `Monk.Stop`. It runs when `started` is set and turns mining
  off. Its last statement, `monk = &Monk{…}`, only rebinds the receiver, so
  `started` stays true and `MonkStop` can run again.
* `AutoCommit` only flips the mining flag, and no modelled step reads that
  flag. Adding it to the model would double the monk run's state space for
  nothing, so it is left out.

### BlockChain

Blocks are a fixed tree of model values (`Parent`, `Diff`). The KV store is
`stored`, `info`, `dbLast` and `ltd`. The memory is `cur`, `lastNum` and `td`.

Each Put of `SetTotalDifficulty` and `Add` is one step, and `Crash` may fall
between any two of them. `Boot` is `setLastBlock`: it either resumes from
`LastBlock`, or writes the genesis block, where `bc.TD` is still nil and is
recorded as 0. In both cases it then reads `LTD`. The genesis branch's Puts of
the BlockInfo, the block and `LastBlock` are one step in the model. A crash
among them leaves no `LastBlock`, or one that points at the stored genesis
block, so the restart takes the same branch again and writes the same keys.
Splitting them would add states without adding outcomes.

The driver `ProcessBlock` is the block processor, which is not under `src/`. It
is written from spec 4.5 and from the call order the block store expects: when
`CalcTotalDiff(b) > TD`, call `SetTotalDifficulty`, then `Add`.

The read paths are operators over the store:
* `GetBlock` and `HasBlock`;
* `BlockInfoByHash`, which decodes a missing record as the zero BlockInfo;
* the RECURSIVE walks of `GetBlockByNumber`, `GetBlockBack`,
  `HasBlockWithPrevHash` and `GetChainHashesFromHash`.

`GetChainHashesFromHash` stops after the block whose number is 0. A parent
missing from the store is a nil block, and the walk records `NoBlock` there,
where the Go code would panic on `block.Hash()`.

### ForkChoice

The abstract fork choice of spec 4.5 has one variable, `head`. `NoBlock` means
the node has not started yet. `StartAtGenesis` makes the genesis block the head,
and `Adopt(b)` replaces the head with a block of strictly greater `TotalDiff`.
`BlockChain` implements it through the persisted `LastBlock`: the mapping is
`head <- dbLast`, and `ForkChoiceRefined` checks it under crashes. A crash
must never move `LastBlock` to a lighter block, and neither may a restart that
reads `LTD` and then accepts a block the stored head already beats. The tie-break
by lower hash that the spec names is in the block processor, which is not under
`src/`. So the abstraction allows only strict improvement.

### StateCache and Ledger

`trie` maps an address to its encoded balance, with `Absent` for no data.
`committed` is the trie at the last Sync, which `Trie.Undo` returns to.
`cache` is `stateObjects`, where `None` means no entry. Each operation runs
under `State.mut` and is one step. GetOrNewStateObject holds the lock twice:
once for GetStateObject (`PGet`, `VGet`) and once for NewStateObject (`PNew`,
`VNew`). Those are therefore separate steps, and the other goroutine can run
between them. `rm` holds the cached objects flagged `remove`. The flag is set
by a self-destruct (`PSuicide`), which the VM performs outside `src/`. `Update`
removes a flagged object from the trie and from `stateObjects`
(DeleteStateObject, under Update's lock) and re-encodes every other object. `snap` is the State that `Copy` returns. After `Set` the live
State and the snapshot share one map (`aliased`).

The block processor is outside `src/`, so its calls follow spec 4.3:

* credit an account;
* Copy before each transaction;
* Set after a failed one;
* Update, then Sync, or Reset.

The validator is `ValidatePerm`/`ValidateTx` in models.go. It reads every
account, and it creates the object of a transaction's sender
(GetOrNewStateObject) for the addresses in `Senders`. The processor credits
the addresses in `Credited`. `Funded` holds the addresses that may have a
balance at the start.

The abstract `Ledger` has balances, the set `doomed` of accounts flagged by a
self-destruct, saved balances, and a snapshot of balances and flags. Its steps
are these:

* `Flag(a)`: a self-destruct flags an account;
* `Destroy`: zero exactly the flagged accounts and clear the flags;
* `Create(a)`: replace an account that holds nothing with a fresh, unflagged
  one;
* `Commit`: only allowed when no flag is pending.

`StateCache` maps `GetBalance` onto `bal`, `rm` onto `doomed`, the committed
trie onto `saved`, and the snapshot's balances and `rm` onto `snap`. So an
Update that skips a flagged object, or deletes one that is not flagged, fails
the refinement. The history variable `nCredits` is mapped onto `credits`, so
a credit that is lost also shows up as a failed refinement step.

### Protocol

A block is a record: its coinbase, its signer, its time, and whether its
difficulty and nonce pass. It also holds its one transaction and `st`, the
GenDoug storage after that transaction. The storage is the permission table
`perms[a][locator]` and the nonces. A transaction can call GenDoug to give an
account "mine".

`HasPermission` follows `GetPermission`: first the public slot, then the bit at
the permission's `Locator`. The Participate loop is the RECURSIVE
`RobinIndex`, and the elapsed-time division truncates as Go's does (`GoDiv`).
`Participate`, `ValidateBlock` and `ValidateTx` dispatch to one operator per
model (`StdLib…`, `Eth…`, `Vm…`, `Yes…`, `No…`, `AlwaysParticipate`), the way
the `Protocol` interface does. The selection of the model by name is not under
`src/`.

The drivers are modelled from the spec, because their code is not under
`src/`:

* `Mine`, the node's miner after Participate;
* `Receive`, a peer's block with any header;
* `SubmitTx`, the pool running ValidateTx against the head;
* `Accept`/`Reject`, the chain manager running ValidateBlock.

`FairSpec` adds fairness to `Spec`:
* weak fairness for the chain manager's `Accept \/ Reject`;
* strong fairness for each ring miner's `Mine`. Peers' blocks can take the
  candidate slot first, so a miner is enabled only intermittently.

The linked-list reads of eris-std-lib (`Locator`, `NextInRing`) and
`nextCoinbase` are also modelled from spec 4.4 and 6.

## Runs

| Run | Expect | Checks | Shows |
|---|---|---|---|
| reactor | pass | TypeOK, EventuallyDispatched, OwnerCallsReturn | one owner, one poster: every queued event is dispatched, every Stop/Flush returns |
| reactor_stop | violation | StopDrains | Stop returns while events Post accepted are still queued, and they are never dispatched (spec 4.6: stop drains) |
| reactor_deadlock | violation | NoPostDeadlock | Post blocked on a full eventChannel holding the lock, dispatcher waiting for the lock |
| monk | pass | TypeOK, NoReactorSendOnClosed | with Start, Stop and Commit interleaved, untargeted subscriptions leave the reactor before their channel is closed |
| monk_target | violation | NoReactorSendOnClosed | a targeted UnSubscribe leaves its closed channel subscribed to `object:<addr>` |
| monk_fwd | violation | NoForwardOnClosed | UnSubscribe closes `ch` under the forwarder's send |
| chain | pass | TypeOK, InfoTDChained, LastBlockStored, ReadsAgree, ChainHashesServed, ForkChoiceRefined | three crashes anywhere, two branches of depth 3 whose heads alternate and end in a reorg from `a5` to `a6`: BlockInfo TDs stay chained, the head is readable, the lookups from the head agree, the hashes served from any stored block reach genesis without a nil block, and the persisted head implements the abstract fork choice |
| chain_crash | violation | HeadTDConsistent | crash after SetTotalDifficulty, before LastBlock: restart with TD above the head's |
| protocol | pass | TypeOK, SomeoneParticipates, ChainGrows | StdLib, round robin over three miners: some ring miner always participates; with fair miners and chain manager the chain reaches its bound whatever peers send |
| protocol_vm | violation | MinerPermittedInParent | Vm model: a peer's block granting its own miner "mine" validates against its own post-state and is accepted |
| state | pass | TypeOK, LedgerRefined | the validator reads every account and creates an unfunded sender's object: the state cache, self-destruct flags included, implements `Ledger` |
| state_race | violation | LedgerRefined | the validator's and the processor's GetOrNewStateObject on a new account: the credited object is replaced, the credit lost |

Three hazards are in the model but not checked by any run.

* **Two owners racing Stop.** When a Flush or a second Stop races a Stop,
  the loser hangs. `MC_Reactor` with `Owners = {o1, o2}` shows this as a
  violation of `OwnerCallsReturn`. The node has a single owner of the reactor,
  so the run is left out.
* **Block numbers after a head switch.** `InfoNumberMatches` (BlockChain)
  fails with `MaxCrashes = 0` and the mixed difficulties. `writeBlockInfo`
  numbers a block `LastBlockNumber + 1`.
* **A channel subscribed twice.** Subscribing the same channel twice makes
  `EventHandler.Remove` panic, which `DuplicateSubscribe = TRUE` reproduces.
  No caller in `src/` subscribes the same channel twice.

The findings in `PROJECT.json` describe each violation.

### Bounds and why they are enough

* **Reactor.** Bounds: `EventBufferSize = 2`, `ChanCap = 1`, `MaxPosts = 2`,
  two topics and two channels.
  * Two posts are enough to fill the event buffer (the deadlock run uses 4 so
    that a Post is blocked while another event is in dispatch).
  * A capacity of 1 already exercises drop-on-full.
  * Two topics and two channels let a Subscribe and a Post target different
    handlers.
* **Monk.** Bounds: two names and two channel pairs, so one subscription can
  be torn down while another lives, plus two posts. `MonkStart`'s `newBlock`
  subscription uses one of the pairs. The run has about 5.8 million states and
  takes under two minutes.
* **State.** Bounds: three addresses, balances up to 2, and two credits. The
  processor credits `a1` and `a2`, and either can be missing from the trie
  while the other is present. Two credits are enough for a transaction to be
  snapshotted, credited and reverted. The validator creates the object of
  `a3`, which starts absent, so a created object meets Copy, Set, a
  self-destruct, Update and Reset. The race run puts the validator's
  creations on the credited, funded addresses, with three credits.

  The sender in the pass run has never held a balance, because that is when
  ValidateTx's GetOrNewStateObject creates at all. TLC shows why the bound is
  needed: when a funded sender is destroyed by Update and the block is then
  Reset, the validator's stale miss overwrites the restored balance. That is
  the same split lock hold as the `state_race` finding.
* **Protocol.** Three accounts, two of them in the ring with "mine", so
  `n div 2 = 1` and both the half-ring test and the time test matter. The time
  reaches 3 block times, and there are three blocks, so one block can grant
  "mine" and a later one can use it. The transactions are calls with gas
  within and above `maxgastx`, granting or not, and contract creations (which
  no sender may make). The pool holds one transaction. These bounds keep the
  liveness check near a minute, and a block can still carry any of them.
* **Chain.** The tree has two branches from genesis, each three blocks
  deep (`a1 <- a3 <- a5` and `a2 <- a4 <- a6`). So it contains extensions, and
  reorgs at depth 1 and at depth 3. There are three crashes. The
  difficulties are 1 for `g` and `a1` and 2 for the others, so the TDs of
  `a1 … a6` are 1 to 6:
  * the head can switch branches at every block, each block's parent
    already recorded, so `CalcTotalDiff` reads a real parent TD;
  * a block whose parent was never processed gets a wrong TD and can be
    rejected;
  * `a6` replaces `a5`, a reorg back to genesis from height 3, which TLC
    reaches after six blocks.
  Ties are checked by the `chain_crash` run, where every block has
  difficulty 1.

### Fairness

`Reactor` assumes fairness for its liveness properties:

* Weak fairness on every step a goroutine that is already inside a call can
  take.
* Strong fairness for the dispatcher's `Lock()` and for Flush's receive.
  Both wait on a resource that is only intermittently free. Go's `sync.Mutex`
  hands the lock to a waiter after 1 ms of starvation, and a channel receive
  is served FIFO.

Threads are never forced to start a new call.

`Protocol` assumes fairness for `ChainGrows`:
* The chain manager handles every candidate it is given, so `Accept \/ Reject`
  is weakly fair.
* The miner loop retries for as long as the node runs, so each ring miner's
  `Mine` is strongly fair.
* Peers, transaction submission and the clock are not assumed to act at all.

`MonkSubscribe`, `StateCache` and `BlockChain` check safety only. Their cfgs set `CHECK_DEADLOCK FALSE` where a
halted process, or a node with no heavier block to accept, is a real end
state.

## What is not modelled, and the plan

1. **State** (`monkstate/state.go`). Modelled: the cache, Copy, Set, Update,
   Sync and Reset, and self-destruct through Update and DeleteStateObject.
   Not modelled: the object's storage trie and its code, and the unlocked
   read of `self.Trie` in Copy. In the model only the processor calls Copy.
   Sync straight after a credit (Sync does not write dirty objects), and a
   snapshot restored twice after Set, need callers the repository does not
   have, so no run reaches them.
2. **Protocol** (`monkdoug/models.go`). Modelled: Participate and the
   permission, signer and nonce checks of every model. Still to do:
   * the Difficulty functions and EthDifficulty, which are not under `src/`;
   * a `blocktime` of 0, whose reader is also not under `src/`;
   * the Vm hook contracts, which are EVM calls.
   Next: a reference "distance in the ring" definition, to state what the
   designated miner decides once `nextCoinbase` is pinned down.
3. **Fork choice.** Done: `ForkChoice` is the abstract specification, and
   `BlockChain` refines it. The lower-hash tie-break and the buffering of
   blocks with an unknown parent belong to the block processor, which is not
   under `src/`.
4. **Not modelled at all.** The trie, RLP and crypto are pure data transforms
   abstracted to identities. `ethchain/doug.go` and `ethtest` are start-up and
   manual test code. In `ethchain/doug.go`, `DougValidate` reads the miners
   at slot `"01"` and the transactors at `"02"`. `Valids` stores them the
   other way round, but `Valids` is dead code (`GenesisPointer` calls
   `GenesisTxsByDoug`, whose layout comes from a contract file), and no code
   under `src/` calls `DougValidate`.

   The rest of `monk.go` is configuration, formatting, and calls into
   thelonious and the key manager, which are not under `src/`. That covers
   StartMining, StopMining, thelonious.Stop and the key ring. Key management is
   also out of the spec's scope (§1). Two hazards are listed with notes and no
   property:
   * `Stop` only reassigns its local receiver, so `started` stays true. A
     second `MonkStop` is reachable in the monk run. A property forbidding it
     would fail, and that needs a violation run, which the run budget does not
     leave room for.
   * `Commit` spins on `StopMining`.
