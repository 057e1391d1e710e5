---------------------------- MODULE MCChainStore ----------------------------
(***************************************************************************)
(* Two branches of the tree of MCChainState, with payments on both and a   *)
(* block worth three, and the writes of each operation one by one.         *)
(***************************************************************************)
EXTENDS MCChainState, ChainStore

StBlocks == {g, a1, a2, b1, b2, s2}

StHeader == [b \in StBlocks |-> MCHeader[b]]

StTxs == [b \in StBlocks |-> MCTxs[b]]
=============================================================================
