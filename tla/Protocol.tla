------------------------------ MODULE Protocol ------------------------------
(***************************************************************************)
(* monkdoug/models.go: the permission and consensus models a node consults *)
(* before it mines (Participate), when the chain manager admits a block    *)
(* (ValidateBlock) and when the transaction pool admits a transaction      *)
(* (ValidateTx).  Permissions are read from the GenDoug contract in a      *)
(* block's state.  A block's state is the GenDoug storage after its one    *)
(* transaction: the sender's nonce is bumped, and a transaction may call    *)
(* GenDoug to give an account the "mine" permission.                       *)
(*                                                                         *)
(* Blocks come from the node's own miner (after Participate) or from a     *)
(* peer with any header, and always extend the head; one candidate at a    *)
(* time is validated.  Difficulty, block-time and proof-of-work checks     *)
(* are abstracted to whether the header passes them.                      *)
(***************************************************************************)
EXTENDS Integers, Sequences, FiniteSets, SequencesExt

CONSTANTS
    Addrs,       \* account addresses
    PermNames,   \* the "permnames" linked list of GenDoug, in order
    Public,      \* permissions p with "public:"+p set
    Ring,        \* the "seq:name" linked list of miners
    MaxGasTx,    \* "maxgastx" (0: not set)
    BlockTime,   \* "blocktime"
    Consensus,   \* "consensus"
    Model,       \* "yes", "no", "eth", "stdlib" or "vm"
    Adversary,   \* the package variable Adversary
    GenesisPerms,\* GenesisPerms[a]: permissions deployed for a
    TxSpace,     \* transactions peers may submit
    NoTx,        \* model value: a block with no transaction
    NoAddr,      \* model value: a transaction that grants nothing
    NoBlock,     \* model value: no candidate block
    MaxBlocks, MaxTime, MaxPool

Perms == {"mine", "transact", "create"}
Locs == 0..Len(PermNames) - 1

\* A transaction: its sender, whether it creates a contract, its gas, its
\* nonce, and the account it gives "mine" through GenDoug (NoAddr: none).
ASSUME TxSpace \subseteq [sender : Addrs, contract : BOOLEAN, gas : Nat,
                          nonce : Nat, grant : Addrs \cup {NoAddr}]

\* A block's GenDoug storage: perms[a][i] is the bit at locator i of
\* a's row of the "perms" keyed array; nonce[a] the account nonce.
GenesisState ==
    [perms |-> [a \in Addrs |-> [i \in Locs |-> PermNames[i + 1] \in GenesisPerms[a]]],
     nonce |-> [a \in Addrs |-> 0]]

VARIABLES
    chain,   \* the accepted blocks, genesis first
    cand,    \* the block being validated, or NoBlock
    pool,    \* transactions ValidateTx admitted
    now      \* time.Now().Unix()

vars == <<chain, cand, pool, now>>

CurrentBlock == chain[Len(chain)]

-----------------------------------------------------------------------------
(* GenDoug reads (eris-std-lib vars, not under src/).                      *)

\* vars.GetLinkedListElement(doug, "permnames", perm): the locator; an
\* unknown name reads as nil, which BigD turns into 0.
Locator(p) == IF \E i \in 1..Len(PermNames) : PermNames[i] = p
                THEN CHOOSE i \in Locs : PermNames[i + 1] = p ELSE 0

\* GetNextLinkedListElement on "seq:name": the next miner in the ring.
NextInRing(a) ==
    IF \E i \in 1..Len(Ring) : Ring[i] = a
      THEN LET i == CHOOSE j \in 1..Len(Ring) : Ring[j] = a
           IN Ring[(i % Len(Ring)) + 1]
      ELSE Ring[1]

\* nextCoinbase(parent): the miner after the parent's coinbase.
NextCoinbase(parent) == NextInRing(parent.coinbase)

-----------------------------------------------------------------------------
(* StdLibModel.                                                            *)

\* GetPermission / HasPermission: public permission, else the address's
\* bit at the permission's locator.
HasPermission(addr, perm, st) ==
    perm \in Public \/ st.perms[addr][Locator(perm)]

\* Go integer division truncates towards zero.
GoDiv(a, b) == IF a >= 0 THEN a \div b ELSE -((-a) \div b)

\* The loop of Participate: i counts the steps from next until coinbase
\* is reached, n when it is not in the ring.
RECURSIVE RobinIndex(_, _, _, _)
RobinIndex(next, coinbase, i, n) ==
    IF i >= n THEN n
    ELSE IF NextInRing(next) = coinbase THEN i
    ELSE RobinIndex(NextInRing(next), coinbase, i + 1, n)

\* Mutant: the loop without its break.
ParticipateNoBreak(coinbase, parent) ==
    LET n == Len(Ring) IN
    \/ Adversary # 0 \/ Consensus # "robin"
    \/ n <= n \div 2
    \/ GoDiv(now - parent.time, BlockTime) > n - n \div 2

\* StdLibModel.Participate: mine when within half the ring of the next
\* miner, or when enough block times have passed for the distance beyond.
StdLibParticipate(coinbase, parent) ==
    LET n == Len(Ring)
        i == RobinIndex(NextCoinbase(parent), coinbase, 0, n)
    IN \/ Adversary # 0 \/ Consensus # "robin"
       \/ i <= n \div 2
       \/ GoDiv(now - parent.time, BlockTime) > i - n \div 2

\* VmModel.Participate with no "compute-participate" contract: mine.
VmParticipate(coinbase, parent) == TRUE

\* YesModel.Participate (NoModel's and EthModel's are the same): mine.
AlwaysParticipate(coinbase, parent) == TRUE

\* Participate through the Protocol interface of the configured model.
Participate(coinbase, parent) ==
    CASE Model = "stdlib" -> StdLibParticipate(coinbase, parent)
      [] Model = "vm"     -> VmParticipate(coinbase, parent)
      [] OTHER            -> AlwaysParticipate(coinbase, parent)

\* Mutant: the block must come from the next miner of the ring, whatever
\* time has passed since the parent.
StdLibValidateBlockStrictTurn(b, parent) ==
    \/ Adversary # 0
    \/ /\ HasPermission(b.coinbase, "mine", parent.st)
       /\ b.signer = b.coinbase /\ b.diffOK /\ b.powOK
       /\ b.coinbase = NextCoinbase(parent)

\* StdLibModel.ValidateBlock: "mine" in the parent's state, signer is the
\* coinbase, difficulty, block times and nonce.
StdLibValidateBlock(b, parent) ==
    \/ Adversary # 0
    \/ /\ HasPermission(b.coinbase, "mine", parent.st)
       /\ b.signer = b.coinbase /\ b.diffOK /\ b.powOK

\* StdLibModel.ValidateTx: "create" or "transact", gas within "maxgastx"
\* when it is set, and the nonce of GetOrNewStateObject(sender).
StdLibValidateTx(tx, st) ==
    \/ Adversary # 0
    \/ /\ HasPermission(tx.sender, IF tx.contract THEN "create" ELSE "transact", st)
       /\ ~(MaxGasTx # 0 /\ tx.gas > MaxGasTx)
       /\ st.nonce[tx.sender] = tx.nonce

\* EthModel.ValidateBlock: no permission, the header checks only.
EthValidateBlock(b, parent) == b.signer = b.coinbase /\ b.diffOK /\ b.powOK

\* EthModel.ValidateTx: the sender's nonce only.
EthValidateTx(tx, st) == st.nonce[tx.sender] = tx.nonce

\* VmModel.ValidatePerm with no "permission-verify" contract: GenDoug's
\* checkperm(role, addr), which reads the same permission table.
VmValidatePerm(addr, role, st) == HasPermission(addr, role, st)

\* VmModel.ValidateBlock (no "block-verify" contract): ValidatePerm of the
\* coinbase for "mine" in block.State(), the block's own post-state.
VmValidateBlock(b, parent) == VmValidatePerm(b.coinbase, "mine", b.st)

\* VmModel.ValidateTx (no "tx-verify" contract): "transact" for any tx.
VmValidateTx(tx, st) == VmValidatePerm(tx.sender, "transact", st)

\* YesModel.ValidateBlock and ValidateTx: nil, accept.
YesValidateBlock(b, parent) == TRUE
YesValidateTx(tx, st) == TRUE

\* NoModel.ValidateBlock and ValidateTx: "No!", reject.
NoValidateBlock(b, parent) == FALSE
NoValidateTx(tx, st) == FALSE

\* ValidateBlock of the configured model; TRUE when it returns nil (the
\* yes model grants everything, the no model nothing).
ValidateBlock(b, parent) ==
    CASE Model = "stdlib" -> StdLibValidateBlock(b, parent)
      [] Model = "eth"    -> EthValidateBlock(b, parent)
      [] Model = "vm"     -> VmValidateBlock(b, parent)
      [] Model = "yes"    -> YesValidateBlock(b, parent)
      [] Model = "no"     -> NoValidateBlock(b, parent)

\* ValidateTx of the configured model against the live state.
ValidateTx(tx, st) ==
    CASE Model = "stdlib" -> StdLibValidateTx(tx, st)
      [] Model = "eth"    -> EthValidateTx(tx, st)
      [] Model = "vm"     -> VmValidateTx(tx, st)
      [] Model = "yes"    -> YesValidateTx(tx, st)
      [] Model = "no"     -> NoValidateTx(tx, st)

-----------------------------------------------------------------------------
(* The chain manager and the transaction pool.                            *)

\* Mutant: the sender's nonce stepped the wrong way.
ApplyNonceDown(st, tx) ==
    IF tx = NoTx THEN st
    ELSE [st EXCEPT !.nonce[tx.sender] = @ - 1,
                    !.perms = IF tx.grant = NoAddr THEN @
                              ELSE [@ EXCEPT ![tx.grant][Locator("mine")] = TRUE]]

\* A block's state: its parent's, after its transaction ran.
Apply(st, tx) ==
    IF tx = NoTx THEN st
    ELSE [st EXCEPT !.nonce[tx.sender] = @ + 1,
                    !.perms = IF tx.grant = NoAddr THEN @
                              ELSE [@ EXCEPT ![tx.grant][Locator("mine")] = TRUE]]

\* Transactions a block on the head can carry: the sender's nonce matches.
Includable(txs) == {t \in txs : t.nonce = CurrentBlock.st.nonce[t.sender]} \cup {NoTx}

MakeBlock(coinbase, signer, diffOK, powOK, tx) ==
    [coinbase |-> coinbase, signer |-> signer, time |-> now,
     diffOK |-> diffOK, powOK |-> powOK, tx |-> tx, st |-> Apply(CurrentBlock.st, tx)]

Genesis == [coinbase |-> NoAddr, signer |-> NoAddr, time |-> 0, diffOK |-> TRUE,
            powOK |-> TRUE, tx |-> NoTx, st |-> GenesisState]

Init ==
    /\ chain = <<Genesis>>
    /\ cand = NoBlock
    /\ pool = {}
    /\ now = 0

Tick ==
    /\ now < MaxTime
    /\ now' = now + 1
    /\ UNCHANGED <<chain, cand, pool>>

\* The pool admits a transaction ValidateTx accepts against the head state.
SubmitTx(tx) ==
    /\ tx \notin pool /\ Cardinality(pool) < MaxPool
    /\ ValidateTx(tx, CurrentBlock.st)
    /\ pool' = pool \cup {tx}
    /\ UNCHANGED <<chain, cand, now>>

\* The node's miner for coinbase c: when Participate says so, a block on
\* the head with a transaction from the pool.
Mine(c) ==
    /\ cand = NoBlock /\ Len(chain) < MaxBlocks
    /\ Participate(c, CurrentBlock)
    /\ \E tx \in Includable(pool) : cand' = MakeBlock(c, c, TRUE, TRUE, tx)
    /\ UNCHANGED <<chain, pool, now>>

\* A block from a peer, with any header.
Receive(c, s, d, p) ==
    /\ cand = NoBlock /\ Len(chain) < MaxBlocks
    /\ \E tx \in Includable(TxSpace) : cand' = MakeBlock(c, s, d, p, tx)
    /\ UNCHANGED <<chain, pool, now>>

\* The chain manager: ValidateBlock against the head, then append.
Accept ==
    /\ cand # NoBlock /\ ValidateBlock(cand, CurrentBlock)
    /\ chain' = Append(chain, cand)
    /\ pool' = pool \ {cand.tx}
    /\ cand' = NoBlock
    /\ UNCHANGED now

Reject ==
    /\ cand # NoBlock /\ ~ValidateBlock(cand, CurrentBlock)
    /\ cand' = NoBlock
    /\ UNCHANGED <<chain, pool, now>>

Next ==
    \/ Tick
    \/ \E tx \in TxSpace : SubmitTx(tx)
    \/ \E c \in Addrs : Mine(c)
    \/ \E c, s \in Addrs, d, p \in BOOLEAN : Receive(c, s, d, p)
    \/ Accept \/ Reject

Spec == Init /\ [][Next]_vars

\* The chain manager takes every candidate it is handed (Accept or
\* Reject), and each miner of the ring, whose loop retries for as long as
\* the node runs, mines whenever it keeps getting the chance: peers' blocks
\* may take the candidate slot first, so the miners' fairness is strong.
Fairness ==
    /\ WF_vars(Accept \/ Reject)
    /\ \A c \in ToSet(Ring) : SF_vars(Mine(c))

FairSpec == Spec /\ Fairness

-----------------------------------------------------------------------------
TypeOK ==
    /\ chain \in Seq([coinbase : Addrs \cup {NoAddr}, signer : Addrs \cup {NoAddr},
                      time : 0..MaxTime, diffOK : BOOLEAN, powOK : BOOLEAN,
                      tx : TxSpace \cup {NoTx}, st : [perms : [Addrs -> [Locs -> BOOLEAN]],
                                                    nonce : [Addrs -> Nat]]])
    /\ Len(chain) \in 1..MaxBlocks
    /\ pool \subseteq TxSpace /\ now \in 0..MaxTime

\* Every accepted block was mined by an account that held the "mine"
\* permission in its parent's state: a block cannot admit its own miner by
\* carrying a transaction that grants it (ValidateBlock's permission read).
MinerPermittedInParent ==
    \A i \in 2..Len(chain) :
        HasPermission(chain[i].coinbase, "mine", chain[i - 1].st)

\* Under round-robin consensus some miner of the ring is always willing to
\* mine on the head, whatever time has passed since it (Participate's
\* distance loop and its half-ring and block-time tests).
SomeoneParticipates ==
    \E c \in ToSet(Ring) : Participate(c, CurrentBlock)

\* Round robin never stalls: whatever blocks peers send, the blocks the
\* ring's miners make when Participate lets them are accepted by
\* ValidateBlock often enough that the chain reaches its bound.  It needs
\* the miner's rule (Participate) and the validator's (ValidateBlock) to
\* leave some miner holding "mine" free to extend every head.
ChainGrows == <>(Len(chain) = MaxBlocks)

=============================================================================
