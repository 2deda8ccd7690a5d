----------------------------- MODULE ForkChoice -----------------------------
(***************************************************************************)
(* What the block store promises (spec 4.5): the node's head starts at    *)
(* the genesis block and is only ever replaced by a block of strictly      *)
(* greater total difficulty, the sum of the difficulties along its chain.  *)
(* Blocks form a fixed tree over model values.                             *)
(***************************************************************************)
EXTENDS Integers

CONSTANTS Blocks, Genesis, Parent, Diff, NoBlock

VARIABLE head   \* the head the node resumes from, or NoBlock before the first start

\* The total difficulty of a block's chain; the genesis block's counts as 0.
RECURSIVE TotalDiff(_)
TotalDiff(b) == IF b = Genesis THEN 0 ELSE TotalDiff(Parent[b]) + Diff[b]

Init == head = NoBlock

\* The first start makes the genesis block the head.
StartAtGenesis == head = NoBlock /\ head' = Genesis

\* A heavier block replaces the head.
Adopt(b) == head # NoBlock /\ TotalDiff(b) > TotalDiff(head) /\ head' = b

Next == StartAtGenesis \/ \E b \in Blocks : Adopt(b)

Spec == Init /\ [][Next]_head

=============================================================================
