---------------------------- MODULE MC_BlockChain ----------------------------
(* A block tree g <- {a1, a2}, a1 <- a3 <- a5, a2 <- a4 <- a6, with        *)
(* per-block difficulties.                                                   *)
EXTENDS BlockChain, TLC

CONSTANTS g, a1, a2, a3, a4, a5, a6

TreeBlocks == {g, a1, a2, a3, a4, a5, a6}
TreeParent == (g :> NoBlock) @@ (a1 :> g) @@ (a2 :> g) @@ (a3 :> a1) @@ (a4 :> a2)
              @@ (a5 :> a3) @@ (a6 :> a4)

\* All blocks at DougDifficulty: one difficulty for every block.
EqualDiff == [b \in TreeBlocks |-> 1]

\* Unequal difficulties, as a consensus model's Difficulty may set: TDs
\* a1 1, a2 2, a3 3, a4 4, a5 5, a6 6, so the head can alternate between the
\* branches block by block, each block's parent already recorded, and end
\* with a6 replacing a5, a reorg back to genesis from height 3.
MixedDiff == [b \in TreeBlocks |-> IF b \in {g, a1} THEN 1 ELSE 2]
=============================================================================
