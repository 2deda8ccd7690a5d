----------------------------- MODULE BlockChain -----------------------------
(***************************************************************************)
(* The block store of monkchain/block_chain.go: the in-memory head         *)
(* (CurrentBlock, LastBlockNumber, TD) over the key-value store (block by  *)
(* hash, hash||"Info", "LastBlock", "LTD").  Blocks come from a fixed tree *)
(* of candidate blocks.  The caller that decides to extend the head (the   *)
(* block processor: compute the block's TD, SetTotalDifficulty if it is    *)
(* higher, then Add) is not in the source tree and follows the spec's      *)
(* fork-choice rule.  Every database Put is its own step, and the node may *)
(* crash between any two steps and restart through setLastBlock.           *)
(***************************************************************************)
EXTENDS Integers, FiniteSets, Sequences

CONSTANTS
    Blocks,      \* candidate blocks, Genesis included
    Genesis,     \* the genesis block
    Parent,      \* Parent[b]: the block whose hash is b.PrevHash
    Diff,        \* Diff[b]: b.Difficulty (uncles carry none here)
    NoBlock,     \* model value: a nil *Block / absent key
    MaxCrashes   \* bound on crashes

ASSUME /\ Genesis \in Blocks /\ NoBlock \notin Blocks
       /\ Parent \in [Blocks -> Blocks \cup {NoBlock}]
       /\ Parent[Genesis] = NoBlock
       /\ \A b \in Blocks \ {Genesis} : Parent[b] \in Blocks
       /\ Diff \in [Blocks -> Nat]

RECURSIVE Number(_)
\* block.Number: the height of a block in the tree.
Number(b) == IF b = Genesis THEN 0 ELSE Number(Parent[b]) + 1

RECURSIVE Lineage(_)
\* The block and its ancestors, newest first, from the tree itself.
Lineage(b) == IF b = NoBlock THEN <<>> ELSE <<b>> \o Lineage(Parent[b])

RECURSIVE Ancestors(_)
Ancestors(b) == IF Parent[b] = NoBlock THEN {} ELSE {Parent[b]} \cup Ancestors(Parent[b])


NoInfo == [number |-> -1, td |-> -1]

VARIABLES
    stored,   \* blocks written under their hash
    info,     \* info[b]: the BlockInfo record under hash||"Info"
    dbLast,   \* the block under "LastBlock"
    ltd,      \* the integer under "LTD" (0 when absent)
    up,       \* the node is running
    cur,      \* bc.CurrentBlock (bc.LastBlockHash is always its hash)
    lastNum,  \* bc.LastBlockNumber
    td,       \* bc.TD
    ppc,      \* control point of the block processor
    pb,       \* the block being added
    crashes   \* crashes so far

vars == <<stored, info, dbLast, ltd, up, cur, lastNum, td, ppc, pb, crashes>>

-----------------------------------------------------------------------------
\* BlockChain.GetBlock: a block is known only if stored under its hash.
GetBlock(h) == IF h \in stored THEN h ELSE NoBlock

\* BlockInfoByHash: decoding a missing hash||"Info" record gives the zero
\* BlockInfo.
BlockInfoByHash(h) == IF info[h] = NoInfo THEN [number |-> 0, td |-> 0] ELSE info[h]

\* HasBlock: something is stored under the hash.
HasBlock(h) == h \in stored

\* Mutant: the parent's TD left out of the sum.
CalcTotalDiffNoParent(b) ==
    IF GetBlock(Parent[b]) = NoBlock THEN -1 ELSE Diff[b]

\* BlockChain.CalcTotalDiff: parent's recorded TD plus the block's
\* difficulty; NoBlock when the parent is unknown.
CalcTotalDiff(b) ==
    IF GetBlock(Parent[b]) = NoBlock THEN -1
    ELSE BlockInfoByHash(Parent[b]).td + Diff[b]

RECURSIVE ByNumberWalk(_, _), ChainHashesWalk(_, _, _)
ByNumberWalk(blk, num) ==
    IF blk = NoBlock \/ Number(blk) = num THEN blk
    ELSE ByNumberWalk(GetBlock(Parent[blk]), num)

\* BlockChain.GetBlockByNumber: walk back from the head to height num.
GetBlockByNumber(num) ==
    LET blk == ByNumberWalk(cur, num)
    IN IF blk # NoBlock /\ Number(blk) = 0 /\ num # 0 THEN NoBlock ELSE blk

RECURSIVE BackWalk(_, _)
BackWalk(blk, num) ==
    IF num = 0 \/ blk = NoBlock THEN blk
    ELSE BackWalk(GetBlock(Parent[blk]), num - 1)

\* Mutant: the loop stops one step early.
GetBlockBackOneShort(num) == IF num = 0 THEN cur ELSE BackWalk(cur, num - 1)

\* BlockChain.GetBlockBack: num steps back from the head.
GetBlockBack(num) == BackWalk(cur, num)

RECURSIVE PrevHashWalk(_, _)
PrevHashWalk(blk, h) ==
    IF blk = NoBlock THEN FALSE
    ELSE IF Parent[blk] = h THEN TRUE
    ELSE PrevHashWalk(GetBlock(Parent[blk]), h)

\* HasBlockWithPrevHash: some block from the head back names h as parent.
HasBlockWithPrevHash(h) == PrevHashWalk(cur, h)

\* Mutant: the loop stops only below number 0, so it steps past genesis.
ChainHashesWalkPastGenesis(blk, i, max) ==
    IF i >= max THEN <<>>
    ELSE IF blk = NoBlock THEN <<NoBlock>>
    ELSE <<blk>> \o ChainHashesWalk(GetBlock(Parent[blk]), i + 1, max)

\* The loop of GetChainHashesFromHash: append the block's hash, stop at
\* number 0, else step to the parent.  A parent missing from the store is
\* a nil block whose Hash() panics: the walk records NoBlock there.
ChainHashesWalk(blk, i, max) ==
    IF i >= max THEN <<>>
    ELSE IF blk = NoBlock THEN <<NoBlock>>
    ELSE <<blk>> \o (IF Number(blk) <= 0 THEN <<>>
                     ELSE ChainHashesWalk(GetBlock(Parent[blk]), i + 1, max))

\* GetChainHashesFromHash: up to max hashes from the block back.
GetChainHashesFromHash(h, max) ==
    IF GetBlock(h) = NoBlock THEN <<>> ELSE ChainHashesWalk(GetBlock(h), 0, max)

\* writeBlockInfo: bump LastBlockNumber for a non-genesis block and record
\* it with the current bc.TD.
WriteBlockInfo(b) ==
    LET n == IF Number(b) # 0 THEN lastNum + 1 ELSE lastNum
    IN /\ lastNum' = n
       /\ info' = [info EXCEPT ![b] = [number |-> n, td |-> td]]

-----------------------------------------------------------------------------
Init ==
    /\ stored = {} /\ info = [b \in Blocks |-> NoInfo]
    /\ dbLast = NoBlock /\ ltd = 0
    /\ up = FALSE
    /\ cur = NoBlock /\ lastNum = 0 /\ td = 0
    /\ ppc = "idle" /\ pb = NoBlock
    /\ crashes = 0

\* Mutant: setLastBlock's LastBlock branch without bc.CurrentBlock = block.
BootForgetsHead ==
    /\ ~up
    /\ up' = TRUE
    /\ IF dbLast # NoBlock
         THEN /\ cur' = cur /\ lastNum' = Number(dbLast)
              /\ UNCHANGED <<stored, info, dbLast>>
         ELSE /\ WriteBlockInfo(Genesis)
              /\ stored' = stored \cup {Genesis}
              /\ dbLast' = Genesis
              /\ cur' = Genesis
    /\ td' = ltd
    /\ UNCHANGED <<ltd, ppc, pb, crashes>>

\* Mutant: the restart leaves bc.TD at 0 instead of reading "LTD".
BootWithoutLTD ==
    /\ ~up
    /\ up' = TRUE
    /\ IF dbLast # NoBlock
         THEN /\ cur' = dbLast /\ lastNum' = Number(dbLast)
              /\ UNCHANGED <<stored, info, dbLast>>
         ELSE /\ WriteBlockInfo(Genesis)
              /\ stored' = stored \cup {Genesis}
              /\ dbLast' = Genesis
              /\ cur' = Genesis
    /\ td' = 0
    /\ UNCHANGED <<ltd, ppc, pb, crashes>>

\* NewBlockChain / setLastBlock: resume from "LastBlock", or Add the genesis
\* block (bc.TD still unset, recorded as 0); then TD from "LTD".
Boot ==
    /\ ~up
    /\ up' = TRUE
    /\ IF dbLast # NoBlock
         THEN /\ cur' = dbLast /\ lastNum' = Number(dbLast)
              /\ UNCHANGED <<stored, info, dbLast>>
         ELSE /\ WriteBlockInfo(Genesis)
              /\ stored' = stored \cup {Genesis}
              /\ dbLast' = Genesis
              /\ cur' = Genesis
    /\ td' = ltd
    /\ UNCHANGED <<ltd, ppc, pb, crashes>>

\* Block processor (spec 4.5): a block whose TD beats bc.TD becomes the head:
\* SetTotalDifficulty(td) (Put "LTD"), then Add.  Others are skipped.
ProcessBlock(b) ==
    /\ up /\ ppc = "idle" /\ b # Genesis
    /\ CalcTotalDiff(b) > td
    /\ ltd' = CalcTotalDiff(b) /\ td' = CalcTotalDiff(b)
    /\ pb' = b /\ ppc' = "info"
    /\ UNCHANGED <<stored, info, dbLast, up, cur, lastNum, crashes>>

\* Add, first steps: writeBlockInfo, then CurrentBlock = block.
AddInfo ==
    /\ up /\ ppc = "info"
    /\ WriteBlockInfo(pb)
    /\ cur' = pb
    /\ ppc' = "putBlock"
    /\ UNCHANGED <<stored, dbLast, ltd, up, td, pb, crashes>>

\* Mutant: Add without the Put under the block's hash.
AddPutBlockSkipped ==
    /\ up /\ ppc = "putBlock"
    /\ ppc' = "putLast"
    /\ UNCHANGED <<stored, info, dbLast, ltd, up, cur, lastNum, td, pb, crashes>>

\* Add: Db.Put(block.Hash(), encodedBlock)
AddPutBlock ==
    /\ up /\ ppc = "putBlock"
    /\ stored' = stored \cup {pb}
    /\ ppc' = "putLast"
    /\ UNCHANGED <<info, dbLast, ltd, up, cur, lastNum, td, pb, crashes>>

\* Add: Db.Put("LastBlock", encodedBlock)
AddPutLast ==
    /\ up /\ ppc = "putLast"
    /\ dbLast' = pb
    /\ ppc' = "idle"
    /\ UNCHANGED <<stored, info, ltd, up, cur, lastNum, td, pb, crashes>>

\* The process dies; the database keeps every completed Put.
Crash ==
    /\ up /\ crashes < MaxCrashes
    /\ up' = FALSE /\ crashes' = crashes + 1
    /\ cur' = NoBlock /\ lastNum' = 0 /\ td' = 0
    /\ ppc' = "idle" /\ pb' = NoBlock
    /\ UNCHANGED <<stored, info, dbLast, ltd>>

Next ==
    \/ Boot
    \/ \E b \in Blocks : ProcessBlock(b)
    \/ AddInfo \/ AddPutBlock \/ AddPutLast
    \/ Crash

Spec == Init /\ [][Next]_vars

-----------------------------------------------------------------------------
TypeOK ==
    /\ stored \subseteq Blocks /\ dbLast \in Blocks \cup {NoBlock}
    /\ info \in [Blocks -> [number : -1..Cardinality(Blocks), td : Int]]
    /\ ltd \in Nat /\ td \in Nat /\ up \in BOOLEAN
    /\ cur \in IF up THEN Blocks ELSE {NoBlock}
    /\ lastNum \in 0..Cardinality(Blocks)
    /\ ppc \in {"idle", "info", "putBlock", "putLast"}
    /\ pb \in Blocks \cup {NoBlock} /\ crashes \in 0..MaxCrashes

\* Every BlockInfo written (by writeBlockInfo) records the block's total
\* difficulty: its parent's recorded TD plus its own difficulty, whatever
\* crashes interrupted the SetTotalDifficulty/Add sequences before it.
InfoTDChained ==
    \A b \in Blocks \ {Genesis} :
        info[b] # NoInfo => info[b].td = info[Parent[b]].td + Diff[b]

\* The block under "LastBlock", from which setLastBlock restarts, is stored
\* under its hash together with all its ancestors, so GetBlock, GetBlockBack
\* and CalcTotalDiff can walk the chain after any crash.
LastBlockStored ==
    dbLast # NoBlock => ({dbLast} \cup Ancestors(dbLast)) \subseteq stored

\* The lookups from the head agree: GetBlockByNumber(n) is the block
\* GetBlockBack returns Number(head) - n steps back, and
\* HasBlockWithPrevHash holds exactly of the head's ancestors.
ReadsAgree ==
    (up /\ cur # NoBlock) =>
        /\ \A n \in 0..Number(cur) : GetBlockByNumber(n) = GetBlockBack(Number(cur) - n)
        /\ \A h \in Blocks : HasBlockWithPrevHash(h) <=> h \in Ancestors(cur)

\* A peer asking for the chain from any block this node has stored gets
\* that block's whole lineage down to genesis, without a nil block in
\* the walk, whatever crashes interrupted the Puts (GetChainHashesFromHash).
ChainHashesServed ==
    \A b \in Blocks :
        HasBlock(b) => GetChainHashesFromHash(b, Cardinality(Blocks)) = Lineage(b)

\* Between blocks, bc.TD (restored from "LTD" on restart) is the recorded
\* TD of bc.CurrentBlock: the fork-choice comparison is against the head.
HeadTDConsistent ==
    (up /\ ppc = "idle") => td = info[cur].td

\* The head persisted under "LastBlock", the one every restart resumes
\* from, implements the fork choice of spec 4.5: it moves only to a block
\* of strictly greater total difficulty, although a restart resets bc.TD
\* from "LTD" and a crash can fall between any two Puts of Add.
FC == INSTANCE ForkChoice WITH head <- dbLast

ForkChoiceRefined == FC!Spec

\* The number writeBlockInfo records (the LastBlockNumber counter) is the
\* block's own number.
InfoNumberMatches ==
    \A b \in Blocks : info[b] # NoInfo => info[b].number = Number(b)

=============================================================================
