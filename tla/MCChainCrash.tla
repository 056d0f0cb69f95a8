---------------------------- MODULE MCChainCrash ----------------------------
(* The block trees of MCChain with a node that may crash. *)
EXTENDS MCChain, ChainHistory
=============================================================================
